---- MODULE Spec2Model ----
(***************************************************************************)
(* Model of the interview assessment system: score fusion                  *)
(* (modules/gemini_scorer.py), the per-question pipeline and the batch      *)
(* aggregators (app.py), with retrieval and cleanup                         *)
(* (modules/video_downloader.py) at their boundary.                         *)
(*                                                                         *)
(* and the gaze aggregator (modules/eye_tracking.py).                      *)
(*                                                                         *)
(* Seven specifications:                                                   *)
(*   SpecFuse  assess_interview as a function of the engine's behaviour and *)
(*             of the judgment it answers with;                             *)
(*   SpecParse parse_gemini_response as a function of the response text;    *)
(*   SpecGaze  analyze_video as a function of the video and its parameters; *)
(*   SpecDecide the decision and the percentage of a batch of scores;      *)
(*   SpecLazy  get_whisper_model and get_face_detector called by one thread,*)
(*   SpecRace  and by two threads at the same time;                        *)
(*   Spec      a batch run (API or UI) over a list of questions, each       *)
(*             question stepping through process_single_interview.          *)
(***************************************************************************)
EXTENDS Integers, Sequences, FiniteSets, TLC

VARIABLES
    fpc,          \* SpecFuse: "call" before assess_interview, "done" after
    fIn,          \* SpecFuse: environment and engine answer of the call
    fOut,         \* SpecFuse: <<>> or <<outcome of assess_interview>>
    path,         \* "api" (process_api_request) or "ui" (process_interview_ui)
    request,      \* the questions of the request, in input order
    bpc,          \* position of the batch function
    idx,          \* number of list entries the batch loop has consumed
    results,      \* results list of the batch function
    scores,       \* scores list of the batch function
    log,          \* per processed question: what its stages did (history)
    ppc,          \* position of process_single_interview
    video_path,   \* its local video_path: "None", "" or "path"
    loc,          \* its locals transcript, metadata and eye_metrics
    cur,          \* outcomes of the stages of the running question (history)
    fres,         \* <<>> or <<outcome of the assess_interview call>>
    result,       \* <<>> or <<dict process_single_interview returns>>
    stages,       \* stages started for the running question, in order (history)
    cleanupCalls, \* cleanup_video calls for the running question (history)
    cbRaised,     \* a progress callback raised in the running question (history)
    out,          \* <<>> or <<what the batch function returned>>
    tpc,          \* SpecParse: "call" before parse_gemini_response, "done" after
    tIn,          \* SpecParse: the response text
    tOut,         \* SpecParse: <<>> or <<outcome of parse_gemini_response>>
    gpc,          \* SpecGaze: "call" before analyze_video, "done" after
    gIn,          \* SpecGaze: the video, the parameters and the environment
    gOut,         \* SpecGaze: <<>> or <<outcome of analyze_video>>
    threads,      \* SpecLazy, SpecRace: the threads that call the getters
    MEDIAPIPE_AVAILABLE,   \* eye_tracking.py: the import of mediapipe succeeded
    model,        \* transcription.py _model: 0 (None) or the object held
    current_model_size,    \* transcription.py _current_model_size
    face_detector,         \* eye_tracking.py _face_detector: 0 (None) or the object
    callers,      \* per thread: where it is in get_whisper_model / get_face_detector
    built,        \* objects constructed so far, in order (history)
    calls,        \* calls that have returned or raised, in order (history)
    dIn,          \* SpecDecide: the final scores of a batch
    dOut          \* SpecDecide: <<>> or <<decision, display, percentage>>

fvars == <<fpc, fIn, fOut>>
bvars == <<path, request, bpc, idx, results, scores, log, out>>
pvars == <<ppc, video_path, loc, cur, fres, result, stages, cleanupCalls, cbRaised>>
tvars == <<tpc, tIn, tOut>>
gvars == <<gpc, gIn, gOut>>
lvars == <<threads, MEDIAPIPE_AVAILABLE, model, current_model_size, face_detector,
           callers, built, calls>>
dvars == <<dIn, dOut>>
xvars == <<tvars, gvars, lvars, dvars>>
vars == <<fvars, bvars, pvars, xvars>>

----------------------------------------------------------------------------
(* Bounds of the model *)

\* questions per request (the UI form: slots beyond it keep their "" default)
MaxQuestions == 4
\* how far outside 0..4 the scores of an engine answer may lie
Over == 1

(* Policy constants of the scorer *)
MAX_SCORE == 4
DEFAULT_SCORE == 2
W_VERBAL == 75
W_RAW == 15
W_FLUENCY == 10
INTEGRITY_PENALTY == 2
PASS_MEAN == 3
REVIEW_MEAN == 2

----------------------------------------------------------------------------
(* Python helpers *)

Max(a, b) == IF a >= b THEN a ELSE b
Min(a, b) == IF a <= b THEN a ELSE b

\* dict.get(key, default)
Get(d, k, default) == IF k \in DOMAIN d THEN d[k] ELSE default

\* all dicts with keys among K and values in V
Dicts(K, V) == UNION {[S -> V] : S \in SUBSET K}

\* Python 3 round(n / d) for an integer n and d > 0 even: the nearest integer,
\* a tie going to the even neighbour (round(0.5) = 0, round(1.5) = 2,
\* round(2.5) = 2).  The weighted score is a float in the code; for every
\* integer input the model draws, the float sum and the exact sum round to
\* the same integer.
RoundHalfUp(n, d) ==
    LET q == n \div d
        r == n % d
    IN  IF 2 * r >= d THEN q + 1 ELSE q

round(n, d) ==
    LET q == n \div d
        r == n % d
    IN  IF 2 * r > d THEN q + 1
        ELSE IF 2 * r < d THEN q
        ELSE IF q % 2 = 0 THEN q ELSE q + 1

----------------------------------------------------------------------------
(* modules/gemini_scorer.py *)

NumKeys == {"score", "star_score", "argumentation_score", "fluency_score"}
SubKeys == {"star_score", "argumentation_score", "fluency_score"}
ScoreVals == (0 - Over)..(MAX_SCORE + Over)
FlagVals == {"clean", "warning", "suspicious"}
EngineErrors == {"network", "quota", "auth"}

\* what json.loads raises besides JSONDecodeError: RecursionError on a text
\* nested deeper than the interpreter's limit, TypeError on a response without
\* text (response.text is None)
ParseErrors == {"RecursionError", "TypeError"}

\* A judgment: the numeric fields and the flag fields the scorer reads, each
\* present or not.  nums["star_score"] is star_analysis.star_score, and so on.
\* nums holds the keys whose value is an integer, strs the keys whose value is
\* not a number (a word, null, a list); frac says that the raw score is the
\* non-integer nums["score"] + 0.5.
\* texts holds the fields "reason", "reasoning" and "notes" that are present.
TextKeys == {"reason", "reasoning", "notes"}
TextVals == {"", "Clear and structured"}

JudgmentWith(n, t, h, f, x) ==
    [type |-> "dict", nums |-> n, strs |-> t, frac |-> h, flags |-> f, texts |-> x]

JudgmentOf(n, t, h, f) == JudgmentWith(n, t, h, f, <<>>)

NoJudgment == JudgmentOf(<<>>, {}, FALSE, <<>>)

\* JSON that is not an object: a number, a string, a list
NotADict ==
    [type |-> "scalar", nums |-> <<>>, strs |-> {}, frac |-> FALSE, flags |-> <<>>,
     texts |-> <<>>]

\* The engine's answer, by what the parsing strategies make of its text
\* (ParseStrategies below): a judgment or another JSON value (Parsable),
\* nothing, which gives the default structure (Unparsable), or an exception
\* other than JSONDecodeError (ParserRaises).
Parsable(j) == [parsable |-> TRUE, judgment |-> j, exception |-> ""]
Unparsable == [parsable |-> FALSE, judgment |-> NoJudgment, exception |-> ""]
ParserRaises(e) == [parsable |-> FALSE, judgment |-> NoJudgment, exception |-> e]

\* get_gemini_client: raises when GEMINI_API_KEY is not set
get_gemini_client(key) ==
    IF key = "missing"
        THEN [raised |-> TRUE, error |-> "GEMINI_API_KEY environment variable not set"]
        ELSE [raised |-> FALSE, error |-> ""]

\* parse_gemini_response: the value in the text, or the default structure;
\* only JSONDecodeError is caught
parse_gemini_response(response) ==
    IF response.exception # ""
        THEN [raised |-> TRUE, exception |-> response.exception]
    ELSE IF response.parsable
        THEN [raised |-> FALSE,
              type |-> response.judgment.type,
              nums |-> response.judgment.nums,
              strs |-> response.judgment.strs,
              frac |-> response.judgment.frac,
              flags |-> response.judgment.flags,
              texts |-> response.judgment.texts,
              confidence_level |-> "",
              error |-> ""]
        ELSE [raised |-> FALSE,
              type |-> "dict",
              nums |-> [k \in {"score"} |-> DEFAULT_SCORE],
              strs |-> {},
              frac |-> FALSE,
              flags |-> <<>>,
              texts |-> [k \in {"reasoning"} |-> "Could not parse response"],
              confidence_level |-> "LOW",
              error |-> "Response parsing failed"]

\* int(score) for the raw score v, or v + 0.5 when frac: truncation towards 0
int(v, frac) == IF frac /\ v < 0 THEN v + 1 ELSE v

\* score = max(0, min(4, int(score)))
ClampScore(s) == Max(0, Min(MAX_SCORE, s))

\* 200 * weighted_score, where
\* weighted_score = 0.75 * ((star + toulmin) / 2) + 0.15 * score + 0.10 * fluency
Weighted200(score, star, toulmin, fluency) ==
    W_VERBAL * (star + toulmin) + 2 * W_RAW * score + 2 * W_FLUENCY * fluency

\* final_score = max(0, min(4, round(weighted_score)))
BaseScoreBad(score, star, toulmin, fluency) ==
    Max(0, Min(MAX_SCORE, RoundHalfUp(Weighted200(score, star, toulmin, fluency), 200)))

BaseScoreUnclamped(score, star, toulmin, fluency) ==
    round(Weighted200(score, star, toulmin, fluency), 200)

BaseScore(score, star, toulmin, fluency) ==
    Max(0, Min(MAX_SCORE, round(Weighted200(score, star, toulmin, fluency), 200)))

\* the integrity veto
VetoBad(flag, final) ==
    IF flag = "suspicious" THEN final - INTEGRITY_PENALTY ELSE final

Veto(flag, final) ==
    IF flag = "suspicious" THEN Max(0, final - INTEGRITY_PENALTY) ELSE final

\* The exception the try block raises on the parsed assessment, "" if none:
\* .get on a value that is not a dict, int() of a raw score that is not a
\* number, arithmetic on a sub-score that is not a number.
FuseError(assessment) ==
    IF assessment.type # "dict" THEN "AttributeError"
    ELSE IF "score" \in assessment.strs THEN "ValueError"
    ELSE IF assessment.strs \cap SubKeys # {} THEN "TypeError"
    ELSE ""

INTEGRITY_WARNING == " [INTEGRITY WARNING: Suspicious behavior detected]"

\* reason = assessment.get("reason", assessment.get("reasoning", "Assessment completed"))
Reason(assessment) ==
    Get(assessment.texts, "reason", Get(assessment.texts, "reasoning", "Assessment completed"))

\* notes = assessment.get("notes", ""), with the warning appended when the
\* flag is "suspicious"; a text is the sequence of its parts
Notes(assessment, flag) ==
    IF flag = "suspicious"
        THEN <<Get(assessment.texts, "notes", ""), INTEGRITY_WARNING>>
        ELSE <<Get(assessment.texts, "notes", "")>>

\* the try block with .get("star_score", 0) in place of .get("star_score", score),
\* and so on for the other two sub-scores
FuseZeroDefault(assessment) ==
    LET score == ClampScore(int(Get(assessment.nums, "score", DEFAULT_SCORE),
                                assessment.frac))
        star == Get(assessment.nums, "star_score", 0)
        toulmin == Get(assessment.nums, "argumentation_score", 0)
        fluency == Get(assessment.nums, "fluency_score", 0)
        base == BaseScore(score, star, toulmin, fluency)
        flag == Get(assessment.flags, "integrity_flag", "clean")
    IN  [raised |-> FALSE,
         score |-> Veto(flag, base),
         reason |-> <<Reason(assessment)>>,
         full_assessment |-> [notes |-> Notes(assessment, flag)],
         warned |-> flag = "suspicious",
         base |-> base,
         weighted200 |-> Weighted200(score, star, toulmin, fluency),
         assessment_score |-> score,
         consumed |-> [k \in SubKeys |->
                          IF k = "star_score" THEN star
                          ELSE IF k = "argumentation_score" THEN toulmin
                          ELSE fluency]]

\* The body of assess_interview's try block, from the parsed assessment on.
Fuse(assessment) ==
    LET score == ClampScore(int(Get(assessment.nums, "score", DEFAULT_SCORE),
                                assessment.frac))
        star == Get(assessment.nums, "star_score", score)
        toulmin == Get(assessment.nums, "argumentation_score", score)
        fluency == Get(assessment.nums, "fluency_score", score)
        base == BaseScore(score, star, toulmin, fluency)
        flag == Get(assessment.flags, "integrity_flag", "clean")
    IN  [raised |-> FALSE,
         score |-> Veto(flag, base),
         reason |-> <<Reason(assessment)>>,
         full_assessment |-> [notes |-> Notes(assessment, flag)],
         warned |-> flag = "suspicious",
         base |-> base,
         weighted200 |-> Weighted200(score, star, toulmin, fluency),
         assessment_score |-> score,
         consumed |-> [k \in SubKeys |->
                          IF k = "star_score" THEN star
                          ELSE IF k = "argumentation_score" THEN toulmin
                          ELSE fluency]]

\* the except clause of assess_interview: score 2 and the error text
ApiError(e) ==
    [raised |-> FALSE,
     score |-> DEFAULT_SCORE,
     reason |-> <<"Gemini API error", e>>,
     full_assessment |-> [error |-> <<"Gemini API error", e>>],
     warned |-> FALSE,
     base |-> DEFAULT_SCORE,
     weighted200 |-> 200 * DEFAULT_SCORE,
     assessment_score |-> DEFAULT_SCORE,
     consumed |-> <<>>]

\* assess_interview under the environment env = [key, engine, response]:
\* the client is built before the try block; the engine is called, its answer
\* parsed and the scores fused inside it.
assess_interview(env) ==
    IF get_gemini_client(env.key).raised
        THEN [raised |-> TRUE, error |-> get_gemini_client(env.key).error]
    ELSE IF env.engine \in EngineErrors
        THEN ApiError(env.engine)
    ELSE LET assessment == parse_gemini_response(env.response) IN
         IF assessment.raised THEN ApiError(assessment.exception)
         ELSE IF FuseError(assessment) # "" THEN ApiError(FuseError(assessment))
         ELSE Fuse(assessment)

\* The calls of SpecFuse: every judgment when the engine answers (the set is
\* drawn element by element), and one call for each other answer and for each
\* way the client or the engine fails.
IsFuseEnv(env) ==
    \/ \E j \in {NotADict} : env = [key |-> "set", engine |-> "ok", response |-> Parsable(j)]
    \/ \E e \in {""} \cup ParseErrors :
          env = [key |-> "set", engine |-> "ok", response |-> ParserRaises(e)]
    \/ \E e \in EngineErrors : env = [key |-> "set", engine |-> e, response |-> Unparsable]
    \/ env = [key |-> "missing", engine |-> "ok", response |-> Unparsable]
    \/ \E s \in 0..MAX_SCORE, f \in Dicts({"integrity_flag"}, FlagVals),
          x \in Dicts(TextKeys, TextVals) :
            env = [key |-> "set", engine |-> "ok",
                   response |-> Parsable(JudgmentWith([k \in {"score"} |-> s], {}, FALSE, f, x))]
    \/ \E n \in Dicts(NumKeys, ScoreVals), f \in Dicts({"integrity_flag"}, FlagVals) :
          \E t \in SUBSET (NumKeys \ DOMAIN n),
             h \in (IF "score" \in DOMAIN n THEN BOOLEAN ELSE {FALSE}) :
               env = [key |-> "set", engine |-> "ok",
                      response |-> Parsable(JudgmentOf(n, t, h, f))]

\* Answers outside the rubric: a raw score out of range, fractional or not a
\* number, sub-scores out of range or not numbers, JSON that is not an object,
\* and a text on which the parser raises.
WildResponses ==
    {Parsable(j) :
        j \in {JudgmentOf([k \in {"score"} |-> MAX_SCORE + 1], {}, FALSE, <<>>),
               JudgmentOf([k \in {"score"} |-> 0 - 1], {}, TRUE, <<>>),
               JudgmentOf(<<>>, {"score"}, FALSE, <<>>),
               JudgmentOf([k \in {"score"} |-> 3], {"fluency_score"}, FALSE, <<>>),
               JudgmentOf([k \in NumKeys |-> IF k \in {"star_score", "argumentation_score"}
                                                THEN MAX_SCORE + 1 ELSE MAX_SCORE],
                          {}, FALSE, <<>>),
               JudgmentOf([k \in NumKeys |-> IF k = "score" THEN 0 ELSE 0 - 1],
                          {}, FALSE, <<>>),
               NotADict}}
        \cup {ParserRaises("RecursionError")}

\* The assess_interview calls of a batch run: the judgments that hold a raw
\* score in 0..4 and no sub-score, clean or suspicious, the answers outside
\* the rubric, an answer that does not parse, each failure of the engine, and
\* a missing key.
BatchFuseEnvs ==
    {[key |-> "set", engine |-> "ok",
      response |-> Parsable(JudgmentOf([k \in {"score"} |-> s], {}, FALSE, f))] :
          s \in 0..MAX_SCORE, f \in Dicts({"integrity_flag"}, {"suspicious"})}
        \cup {[key |-> "set", engine |-> "ok", response |-> r] : r \in WildResponses}
        \cup {[key |-> "set", engine |-> e, response |-> Unparsable] :
                 e \in {"ok"} \cup EngineErrors}
        \cup {[key |-> "missing", engine |-> "ok", response |-> Unparsable]}

----------------------------------------------------------------------------
(* modules/gemini_scorer.py: parse_gemini_response on the response text *)

\* The response text is a sequence of pieces:
\*   "T"   prose without braces or backticks
\*   "F"   a fence ```                  "Fj"  a fence ```json
\*   "J1", "J2"  the JSON text of a judgment
\*   "Jf"  the JSON text of a judgment one of whose strings holds ```
\*   "N"   JSON that is not an object (a number)
\*   "B"   braces around something that is not JSON, {oops}
\*   "D"   JSON objects nested deeper than the interpreter's recursion limit
Pieces == {"T", "F", "Fj", "J1", "J2", "Jf", "N", "B", "D"}
JsonPieces == {"J1", "J2", "Jf", "N"}
HasFence(p) == p \in {"F", "Fj", "Jf"}
HasBrace(p) == p \in {"J1", "J2", "Jf", "B", "D"}
IsJsonFence(p) == p = "Fj"

\* response.text is None
NoText == <<"None">>

\* pieces per response text
MaxPieces == 4

\* the value json.loads returns for a piece it can decode
JsonValue(p) ==
    CASE p = "J1" -> JudgmentOf([k \in {"score"} |-> 3], {}, FALSE, <<>>)
      [] p = "J2" -> JudgmentOf([k \in NumKeys |-> 4], {}, FALSE,
                                [k \in {"integrity_flag"} |-> "suspicious"])
      [] p = "Jf" -> JudgmentOf([k \in {"score", "star_score"} |-> 1], {}, FALSE, <<>>)
      [] OTHER -> NotADict

\* a string cut out of the text: whole pieces, with a part of a piece or the
\* tag "json" before them (pre) or a part of a piece after them (post)
Str(pre, toks, post) == [pre |-> pre, toks |-> toks, post |-> post]

\* json.loads(str): "ok" and the piece decoded, "fail" for JSONDecodeError,
\* "raise" for RecursionError.  The decoder reads the first value, then
\* rejects what follows it.
json_loads(str) ==
    IF str.pre \/ str.toks = <<>> THEN [status |-> "fail", piece |-> ""]
    ELSE IF str.toks[1] = "D" THEN [status |-> "raise", piece |-> ""]
    ELSE IF Len(str.toks) = 1 /\ ~str.post /\ str.toks[1] \in JsonPieces
        THEN [status |-> "ok", piece |-> str.toks[1]]
    ELSE [status |-> "fail", piece |-> ""]

\* index of the first piece from position from on, of the last piece, that
\* is one of kinds; 0 if there is none
First(text, kinds, from) ==
    LET S == {i \in from..Len(text) : text[i] \in kinds}
    IN  IF S = {} THEN 0 ELSE CHOOSE i \in S : \A j \in S : i <= j

Last(text, kinds) ==
    LET S == {i \in 1..Len(text) : text[i] \in kinds}
    IN  IF S = {} THEN 0 ELSE CHOOSE i \in S : \A j \in S : i >= j

NoMatch == [matched |-> FALSE, group |-> Str(FALSE, <<>>, FALSE)]

\* re.search(pattern, response_text, re.DOTALL) and the group the parser takes:
\*   fenced_json  ```json\s*(.*?)\s*```   from the first ```json to the next ```
\*   fenced       ```\s*(.*?)\s*```       from the first ``` to the next ```
\*   braces       \{[\s\S]*\}             from the first { to the last }
re_search(pattern, text) ==
    IF pattern = "fenced_json" THEN
        LET i == First(text, {p \in Pieces : IsJsonFence(p)}, 1)
            k == IF i = 0 THEN 0 ELSE First(text, {p \in Pieces : HasFence(p)}, i + 1)
        IN  IF k = 0 THEN NoMatch
            ELSE [matched |-> TRUE,
                  group |-> Str(FALSE, SubSeq(text, i + 1, k - 1), text[k] = "Jf")]
    ELSE IF pattern = "fenced" THEN
        LET i == First(text, {p \in Pieces : HasFence(p)}, 1)
            k == IF i = 0 THEN 0 ELSE First(text, {p \in Pieces : HasFence(p)}, i + 1)
        IN  IF k = 0 THEN NoMatch
            ELSE [matched |-> TRUE,
                  group |-> Str(text[i] \in {"Fj", "Jf"}, SubSeq(text, i + 1, k - 1),
                                text[k] = "Jf")]
    ELSE
        LET i == First(text, {p \in Pieces : HasBrace(p)}, 1)
            k == Last(text, {p \in Pieces : HasBrace(p)})
        IN  IF i = 0 THEN NoMatch
            ELSE [matched |-> TRUE, group |-> Str(FALSE, SubSeq(text, i, k), FALSE)]

\* json_patterns, in the order the parser tries them
json_patternsBad == <<"braces", "fenced_json", "fenced">>

json_patterns == <<"fenced_json", "fenced", "braces">>

\* for pattern in json_patterns: the first match that decodes is returned, a
\* match that does not decode is skipped, another exception propagates
RECURSIVE TryPatterns(_, _)
TryPatterns(text, patterns) ==
    IF patterns = <<>>
        THEN [status |-> "default", strategy |-> "none", piece |-> "", exception |-> ""]
    ELSE LET m == re_search(Head(patterns), text)
             r == json_loads(m.group)
         IN  IF m.matched /\ r.status = "ok"
                 THEN [status |-> "ok", strategy |-> Head(patterns),
                       piece |-> r.piece, exception |-> ""]
             ELSE IF m.matched /\ r.status = "raise"
                 THEN [status |-> "raise", strategy |-> Head(patterns),
                       piece |-> "", exception |-> "RecursionError"]
             ELSE TryPatterns(text, Tail(patterns))

\* the strategies of parse_gemini_response: the whole text, then the patterns
ParseStrategies(text) ==
    IF text = NoText
        THEN [status |-> "raise", strategy |-> "direct", piece |-> "", exception |-> "TypeError"]
    ELSE LET r == json_loads(Str(FALSE, text, FALSE))
         IN  IF r.status = "ok"
                 THEN [status |-> "ok", strategy |-> "direct", piece |-> r.piece, exception |-> ""]
             ELSE IF r.status = "raise"
                 THEN [status |-> "raise", strategy |-> "direct",
                       piece |-> "", exception |-> "RecursionError"]
             ELSE TryPatterns(text, json_patterns)

\* the answer the text amounts to
ResponseOf(text) ==
    LET r == ParseStrategies(text)
    IN  IF r.status = "ok" THEN Parsable(JsonValue(r.piece))
        ELSE IF r.status = "raise" THEN ParserRaises(r.exception)
        ELSE Unparsable

----------------------------------------------------------------------------
(* SpecParse: one call of parse_gemini_response, and the fusion of its result *)

InitParseOnly ==
    /\ tpc = "call"
    /\ \/ \E n \in 0..MaxPieces : tIn \in [1..n -> Pieces]
       \/ tIn = NoText
    /\ tOut = <<>>

ParseResponse ==
    /\ tpc = "call"
    /\ tOut' = <<[raised |-> ParseStrategies(tIn).status = "raise",
                  exception |-> ParseStrategies(tIn).exception,
                  strategy |-> ParseStrategies(tIn).strategy,
                  piece |-> ParseStrategies(tIn).piece,
                  assessment |-> parse_gemini_response(ResponseOf(tIn)),
                  fused |-> assess_interview([key |-> "set", engine |-> "ok",
                                              response |-> ResponseOf(tIn)])]>>
    /\ tpc' = "done"
    /\ UNCHANGED <<tIn, fvars, bvars, pvars, gvars, lvars, dvars>>

----------------------------------------------------------------------------
(* SpecFuse: one call of assess_interview *)

InitFuseOnly ==
    /\ fpc = "call"
    /\ IsFuseEnv(fIn)
    /\ fOut = <<>>

AssessInterview ==
    /\ fpc = "call"
    /\ fOut' = <<assess_interview(fIn)>>
    /\ fpc' = "done"
    /\ UNCHANGED <<fIn, bvars, pvars, xvars>>

----------------------------------------------------------------------------
(* modules/video_downloader.py *)

\* download_video returns (path, True), or ("", False) on every failure
download_video(ok) ==
    IF ok THEN [path |-> "path", success |-> TRUE]
          ELSE [path |-> "", success |-> FALSE]

\* Python truth of video_path: None and "" are false
TruthyBad(p) == p # "None"

Truthy(p) == p \notin {"None", ""}

----------------------------------------------------------------------------
(* app.py: process_single_interview, one step per stage *)

Stages == <<"RETRIEVE", "TRANSCRIBE", "GAZE_AGGREGATE", "FUSE">>

NoLocals == [transcript |-> "unset", metadata |-> "unset", eye_metrics |-> <<>>]
NoOutcomes == [retrieve |-> "not_run", transcribe |-> "not_run", gaze |-> "not_run"]

\* a question is processed unless
\* not interview.get("isVideoExist", True) or not interview.get("recordedVideoUrl");
\* the form keeps the slots whose URL is not empty, with isVideoExist True
HasMediaBad(q) == q.isVideoExist

HasMedia(q) == q.isVideoExist /\ q.recordedVideoUrl # ""

\* the question the batch loop is at
Interviews == IF path = "ui" THEN SelectSeq(request, HasMedia) ELSE request
Question == Interviews[idx + 1]

\* progress_callback is None on the API path and gradio's progress on the UI path
HasCallback == path = "ui"

\* an except clause that keeps neither the trace nor the score 0
ExceptionResultBad(e) ==
    [id |-> Question.positionId, score |-> DEFAULT_SCORE, error |-> e]

\* the outer except clause: the dict returned for an exception e
ExceptionResult(e) ==
    [id |-> Question.positionId, score |-> 0, error |-> e, traceback |-> "traceback"]

\* progress_callback(...) raises: the outer except builds the result, then finally
CallbackRaises ==
    /\ HasCallback
    /\ result' = <<ExceptionResult("progress callback failed")>>
    /\ cbRaised' = TRUE
    /\ ppc' = "finally"
    /\ UNCHANGED <<video_path, loc, cur, fres, stages, cleanupCalls>>

\* if not success: return the error result; otherwise go on to step 2
AfterRetrieveBad(success) == "transcribe"

AfterRetrieveSkips(success) == IF success THEN "gaze" ELSE "finally"

AfterRetrieve(success) == IF success THEN "transcribe" ELSE "finally"

\* Step 1: download_video
Retrieve ==
    /\ ppc = "retrieve"
    /\ \/ CallbackRaises
       \/ \E ok \in BOOLEAN :
            LET d == download_video(ok) IN
            /\ stages' = Append(stages, "RETRIEVE")
            /\ video_path' = d.path
            /\ cur' = [cur EXCEPT !.retrieve = IF d.success THEN "ok" ELSE "failed"]
            /\ IF ~d.success
                 THEN /\ result' = <<[id |-> Question.positionId,
                                      score |-> 0,
                                      error |-> "Failed to download video from Google Drive",
                                      transcript |-> "",
                                      eye_metrics |-> <<>>]>>
                 ELSE /\ result' = result
            /\ ppc' = AfterRetrieve(d.success)
            /\ UNCHANGED <<loc, fres, cleanupCalls, cbRaised>>
    /\ UNCHANGED <<fvars, bvars, xvars>>

\* Step 2 without its own try: a transcription error reaches the outer except
TranscribeUnguarded ==
    /\ ppc = "transcribe"
    /\ \/ CallbackRaises
       \/ \E ok \in BOOLEAN :
            /\ stages' = Append(stages, "TRANSCRIBE")
            /\ cur' = [cur EXCEPT !.transcribe = IF ok THEN "ok" ELSE "failed"]
            /\ loc' = IF ok
                        THEN [loc EXCEPT !.transcript = "text", !.metadata = "info"]
                        ELSE loc
            /\ result' = IF ok THEN result ELSE <<ExceptionResult("transcription failed")>>
            /\ ppc' = IF ok THEN "gaze" ELSE "finally"
            /\ UNCHANGED <<video_path, fres, cleanupCalls, cbRaised>>
    /\ UNCHANGED <<fvars, bvars, xvars>>

\* Step 2: transcribe_video, an exception replaced by an empty transcript
Transcribe ==
    /\ ppc = "transcribe"
    /\ \/ CallbackRaises
       \/ \E ok \in BOOLEAN :
            /\ stages' = Append(stages, "TRANSCRIBE")
            /\ cur' = [cur EXCEPT !.transcribe = IF ok THEN "ok" ELSE "failed"]
            /\ loc' = IF ok
                        THEN [loc EXCEPT !.transcript = "text", !.metadata = "info"]
                        ELSE [loc EXCEPT !.transcript = "", !.metadata = "error"]
            /\ ppc' = "gaze"
            /\ UNCHANGED <<video_path, fres, result, cleanupCalls, cbRaised>>
    /\ UNCHANGED <<fvars, bvars, xvars>>

\* Step 3: analyze_eye_tracking, an exception replaced by an error summary
Gaze ==
    /\ ppc = "gaze"
    /\ \/ CallbackRaises
       \/ \E ok \in BOOLEAN :
            /\ stages' = Append(stages, "GAZE_AGGREGATE")
            /\ cur' = [cur EXCEPT !.gaze = IF ok THEN "ok" ELSE "failed"]
            /\ loc' = IF ok
                        THEN [loc EXCEPT !.eye_metrics = [analysis_notes |-> "measured"]]
                        ELSE [loc EXCEPT !.eye_metrics =
                                  [error |-> "gaze error", eye_contact_percentage |-> 0]]
            /\ ppc' = "fuse"
            /\ UNCHANGED <<video_path, fres, result, cleanupCalls, cbRaised>>
    /\ UNCHANGED <<fvars, bvars, xvars>>

\* Step 4: assess_interview, an exception replaced by score 2, then the return
Assess ==
    /\ ppc = "fuse"
    /\ \/ CallbackRaises
       \/ \E env \in BatchFuseEnvs :
            LET a == assess_interview(env) IN
            /\ stages' = Append(stages, "FUSE")
            /\ fres' = <<a>>
            /\ result' = <<[id |-> Question.positionId,
                            score |-> IF a.raised THEN DEFAULT_SCORE ELSE a.score,
                            reasoning |-> IF a.raised THEN <<"Assessment error", a.error>>
                                                      ELSE a.reason,
                            transcript |-> loc.transcript,
                            transcript_metadata |-> loc.metadata,
                            eye_metrics |-> loc.eye_metrics,
                            full_assessment |-> IF a.raised THEN [error |-> a.error]
                                                            ELSE a.full_assessment]>>
            /\ ppc' = "finally"
            /\ UNCHANGED <<video_path, loc, cur, cleanupCalls, cbRaised>>
    /\ UNCHANGED <<fvars, bvars, xvars>>

\* finally: cleanup_video(video_path) if video_path
Finally ==
    /\ ppc = "finally"
    /\ cleanupCalls' = IF Truthy(video_path) THEN cleanupCalls + 1 ELSE cleanupCalls
    /\ ppc' = "returned"
    /\ UNCHANGED <<video_path, loc, cur, fres, result, stages, cbRaised>>
    /\ UNCHANGED <<fvars, bvars, xvars>>

----------------------------------------------------------------------------
(* app.py: process_api_request and process_interview_ui *)

RECURSIVE Sum(_)
Sum(seq) == IF seq = <<>> THEN 0 ELSE Head(seq) + Sum(Tail(seq))

\* avg_score >= t, where avg_score = sum(scores) / len(scores) if scores else 0.
\* The quotient of two small integers is compared with an integer, so the
\* float comparison is the exact one.
AvgAtLeastNoGuard(scs, t) == Sum(scs) >= t * Len(scs)

AvgAtLeastBad(scs, t) ==
    IF scs = <<>> THEN 0 >= t ELSE Sum(scs) > t * Len(scs)

AvgAtLeast(scs, t) ==
    IF scs = <<>> THEN 0 >= t ELSE Sum(scs) >= t * Len(scs)

\* decision of process_api_request, api_decision of process_interview_ui
ApiDecisionBad(scs) ==
    IF AvgAtLeast(scs, PASS_MEAN) THEN "PASSED"
    ELSE IF AvgAtLeast(scs, REVIEW_MEAN) THEN "REVIEW"
    ELSE "FAILED"

ApiDecisionStrict(scs) ==
    IF AvgAtLeastBad(scs, PASS_MEAN) THEN "PASSED"
    ELSE IF AvgAtLeast(scs, REVIEW_MEAN) THEN "Need Human"
    ELSE "FAILED"

ApiDecision(scs) ==
    IF AvgAtLeast(scs, PASS_MEAN) THEN "PASSED"
    ELSE IF AvgAtLeast(scs, REVIEW_MEAN) THEN "Need Human"
    ELSE "FAILED"

\* decision of process_interview_ui, shown in the form
UiDecision(scs) ==
    IF AvgAtLeast(scs, PASS_MEAN) THEN "PASSED (display)"
    ELSE IF AvgAtLeast(scs, REVIEW_MEAN) THEN "REVIEW (display)"
    ELSE "FAILED (display)"

\* reason_text of a result: its reasoning, or the notes of its assessment when
\* the reasoning is empty or the default text
ReasonText(r) ==
    LET reason_text == Get(r, "reasoning", <<"">>)
    IN  IF (\A i \in DOMAIN reason_text : reason_text[i] = "")
             \/ reason_text = <<"Assessment completed">>
            THEN Get(Get(r, "full_assessment", <<>>), "notes",
                     <<"No detailed analysis available">>)
            ELSE reason_text

\* scores_simple: id and score of every result
ScoresSimpleBad(rs) == [i \in 1..Len(rs) |-> [id |-> rs[i].id, score |-> Get(rs[1], "score", 0)]]

ScoresSimple(rs) == [i \in 1..Len(rs) |-> [id |-> rs[i].id, score |-> Get(rs[i], "score", 0)]]

\* interview_score_pct in tenths of a percent:
\* round((total_score / max_possible) * 100, 1) if max_possible > 0 else 0.
\* Python rounds the float to one decimal, a tie going to the even digit
\* (round(6.25, 1) = 6.2); the quotients k / 16 that give ties are exact floats.
InterviewScorePctBad(scs) ==
    LET total_score == Sum(scs)
        max_possible == Len(scs) * MAX_SCORE
    IN  IF max_possible > 0 THEN RoundHalfUp(1000 * total_score, max_possible) ELSE 0

InterviewScorePct(scs) ==
    LET total_score == Sum(scs)
        max_possible == Len(scs) * MAX_SCORE
    IN  IF max_possible > 0 THEN round(1000 * total_score, max_possible) ELSE 0

\* questions of a batch whose decision is computed on its own
MaxBatch == 5

\* the mean, the percentage and the decision computed from the scores of the
\* results
Decide ==
    /\ dOut = <<>>
    /\ dIn # <<>>
    /\ dOut' = <<[decision |-> ApiDecision(dIn),
                  display |-> UiDecision(dIn),
                  interview_score_pct |->
                      InterviewScorePct([i \in DOMAIN dIn |->
                          ScoresSimple([k \in DOMAIN dIn |-> [id |-> k, score |-> dIn[k]]])[i].score])]>>
    /\ UNCHANGED <<dIn, fvars, bvars, pvars, tvars, gvars, lvars>>

\* what the two functions return when there is nothing to process
NoInterviews ==
    IF path = "ui"
        THEN [success |-> FALSE, display |-> "Error",
              error |-> "No valid Google Drive video URLs provided"]
        ELSE [success |-> FALSE, display |-> "", error |-> "No interviews found"]

\* the except clause of process_interview_ui
UiException(e) == [success |-> FALSE, display |-> "Error", error |-> e]

IdlePipeline ==
    /\ ppc = "idle"
    /\ video_path = "None"
    /\ loc = NoLocals
    /\ cur = NoOutcomes
    /\ fres = <<>>
    /\ result = <<>>
    /\ stages = <<>>
    /\ cleanupCalls = 0
    /\ cbRaised = FALSE

\* process_single_interview has returned: its frame is gone
ResetPipeline ==
    /\ ppc' = "idle"
    /\ video_path' = "None"
    /\ loc' = NoLocals
    /\ cur' = NoOutcomes
    /\ fres' = <<>>
    /\ result' = <<>>
    /\ stages' = <<>>
    /\ cleanupCalls' = 0
    /\ cbRaised' = FALSE

\* if not interviews: return the error
Begin ==
    /\ bpc = "start"
    /\ IF Interviews = <<>>
         THEN /\ out' = <<NoInterviews>>
              /\ bpc' = "done"
         ELSE /\ out' = out
              /\ bpc' = "loop"
    /\ UNCHANGED <<path, request, idx, results, scores, log>>
    /\ UNCHANGED <<fvars, pvars, xvars>>

\* API loop: an interview without media is skipped
Skip ==
    /\ bpc = "loop"
    /\ idx < Len(Interviews)
    /\ path = "api"
    /\ ~HasMedia(Question)
    /\ idx' = idx + 1
    /\ UNCHANGED <<path, request, bpc, results, scores, log, out>>
    /\ UNCHANGED <<fvars, pvars, xvars>>

\* the loop calls process_single_interview (UI: after a progress update)
Call ==
    /\ bpc = "loop"
    /\ idx < Len(Interviews)
    /\ HasMedia(Question)
    /\ bpc' = "question"
    /\ ppc' = "retrieve"
    /\ UNCHANGED <<path, request, idx, results, scores, log, out>>
    /\ UNCHANGED <<video_path, loc, cur, fres, result, stages, cleanupCalls, cbRaised>>
    /\ UNCHANGED <<fvars, xvars>>

\* UI: progress(...) raises in the loop or after it, the except clause returns
ProgressRaises ==
    /\ bpc = "loop"
    /\ path = "ui"
    /\ out' = <<UiException("progress failed")>>
    /\ bpc' = "done"
    /\ UNCHANGED <<path, request, idx, results, scores, log>>
    /\ UNCHANGED <<fvars, pvars, xvars>>

\* results.append(result); scores.append(result.get("score", 0))
Collect ==
    /\ bpc = "question"
    /\ ppc = "returned"
    /\ results' = Append(results, [id |-> result[1].id, score |-> result[1].score])
    /\ scores' = Append(scores, Get(result[1], "score", 0))
    /\ log' = Append(log, [retrieve |-> cur.retrieve, score |-> result[1].score])
    /\ idx' = idx + 1
    /\ bpc' = "loop"
    /\ ResetPipeline
    /\ UNCHANGED <<path, request, out>>
    /\ UNCHANGED <<fvars, xvars>>

\* after the loop: the mean, the decision and the response
Aggregate ==
    /\ bpc = "loop"
    /\ idx = Len(Interviews)
    /\ out' = <<[success |-> TRUE,
                 decision |-> ApiDecision(scores),
                 display |-> IF path = "ui" THEN UiDecision(scores) ELSE "",
                 total_score |-> Sum(scores),
                 count |-> Len(scores),
                 interview_score_pct |->
                     InterviewScorePct(IF path = "ui"
                         THEN [i \in DOMAIN results |-> ScoresSimple(results)[i].score]
                         ELSE scores),
                 scores |-> ScoresSimple(results)]>>
    /\ bpc' = "done"
    /\ UNCHANGED <<path, request, idx, results, scores, log>>
    /\ UNCHANGED <<fvars, pvars, xvars>>

----------------------------------------------------------------------------
(* modules/eye_tracking.py: analyze_video *)

\* Gaze ratios are in tenths (5 is the centre 0.5); the percentages of a
\* summary are in hundredths of a percent, the unit round(x, 2) keeps.  For
\* every sequence of up to 5 gaze values on the grid of tenths the integer
\* arithmetic below gives the numbers the float arithmetic of the code gives.

\* frames the video holds, sample_rate and max_frames of the call
MaxFrames == 3
MaxStride == 2
MaxBudget == 3

EYE_CONTACT_THRESHOLD == 3
W_EYE_CONTACT == 4
W_STABILITY == 3
W_NOT_AWAY == 3

\* iris positions relative to the eye width, some outside the eye corners
IrisVals == {0 - 2, 2, 5, 7, 8, 12}

NoFace == [face |-> FALSE, iris |-> 5]
FrameKinds == {NoFace} \cup {[face |-> TRUE, iris |-> v] : v \in IrisVals}

Abs(x) == IF x < 0 THEN 0 - x ELSE x

\* return max(0, min(1, iris_position))
calculate_gaze_ratioBad(iris_position) == iris_position

calculate_gaze_ratio(iris_position) == Max(0, Min(10, iris_position))

\* analyze_frame: None without a face, else the gaze of the two eyes (the
\* model gives both the same iris position) and the eye contact score
analyze_frame(frame) ==
    IF ~frame.face THEN [face |-> FALSE, avg_gaze |-> 0, eye_contact_score |-> 0]
    ELSE LET left_gaze == calculate_gaze_ratio(frame.iris)
             right_gaze == calculate_gaze_ratio(frame.iris)
             avg_gaze == (left_gaze + right_gaze) \div 2
         IN  [face |-> TRUE,
              avg_gaze |-> avg_gaze,
              eye_contact_score |-> 10 - 2 * Abs(avg_gaze - 5)]

NoSamples == [frames_analyzed |-> 0, frames_with_face |-> 0,
              gaze_values |-> <<>>, eye_contact_scores |-> <<>>]

\* the while loop: frame_idx frames have been read
RECURSIVE Sample(_, _, _, _, _)
Sample(frames, sample_rate, max_frames, frame_idx, acc) ==
    IF frame_idx >= Len(frames) THEN acc
    ELSE IF frame_idx % sample_rate = 0 THEN
        LET metrics == analyze_frame(frames[frame_idx + 1])
            next == [frames_analyzed |-> acc.frames_analyzed + 1,
                     frames_with_face |-> acc.frames_with_face + (IF metrics.face THEN 1 ELSE 0),
                     gaze_values |-> IF metrics.face
                                       THEN Append(acc.gaze_values, metrics.avg_gaze)
                                       ELSE acc.gaze_values,
                     eye_contact_scores |-> IF metrics.face
                                       THEN Append(acc.eye_contact_scores,
                                                   metrics.eye_contact_score)
                                       ELSE acc.eye_contact_scores]
        IN  IF next.frames_analyzed >= max_frames THEN next
            ELSE Sample(frames, sample_rate, max_frames, frame_idx + 1, next)
    ELSE Sample(frames, sample_rate, max_frames, frame_idx + 1, acc)

\* the largest k in lo..hi with k * k <= x
RECURSIVE SqrtBetween(_, _, _)
SqrtBetween(x, lo, hi) ==
    IF lo = hi THEN lo
    ELSE LET mid == (lo + hi + 1) \div 2
         IN  IF mid * mid <= x THEN SqrtBetween(x, mid, hi)
                               ELSE SqrtBetween(x, lo, mid - 1)

FloorSqrt(x) == SqrtBetween(x, 0, 40000)
CeilSqrt(x) == IF FloorSqrt(x) * FloorSqrt(x) = x THEN FloorSqrt(x) ELSE FloorSqrt(x) + 1

\* n * n * 100 * variance of the gaze values
Spread(gaze_values) ==
    Len(gaze_values) * Sum([i \in DOMAIN gaze_values |-> gaze_values[i] * gaze_values[i]])
        - Sum(gaze_values) * Sum(gaze_values)

\* gaze_std = np.std(gaze_values); round(max(0, 1 - gaze_std * 2) * 100, 2).
\* 200 * gaze_std is 2000 * sqrt(Spread) / n hundredths; f is floor(4000 * sqrt(Spread)).
GazeStability(gaze_values) ==
    LET n == Len(gaze_values)
        a == FloorSqrt(1000000 * Spread(gaze_values))
        rem == 1000000 * Spread(gaze_values) - a * a
        j == CHOOSE j \in 0..3 :
                /\ 8 * a * j + j * j <= 16 * rem
                /\ \A i \in 0..3 : 8 * a * i + i * i <= 16 * rem => i <= j
        f == 4 * a + j
    IN  Max(0, 10000 - ((f + n) \div (2 * n)))

\* the frames within the threshold of the centre, and the others
EyeContactFrames(gaze_values) ==
    Cardinality({i \in DOMAIN gaze_values : Abs(gaze_values[i] - 5) < EYE_CONTACT_THRESHOLD})

\* looking away counted without the frames on the threshold
LookingAwayFramesBad(gaze_values) ==
    Cardinality({i \in DOMAIN gaze_values : Abs(gaze_values[i] - 5) > EYE_CONTACT_THRESHOLD})

LookingAwayFrames(gaze_values) ==
    Cardinality({i \in DOMAIN gaze_values : Abs(gaze_values[i] - 5) >= EYE_CONTACT_THRESHOLD})

\* the attention score with the eye contact percentage in place of the mean
\* eye contact score
AttentionScoreBad(gaze_values, eye_contact_scores) ==
    LET n == Len(gaze_values)
        eye == 1000 * W_EYE_CONTACT * EyeContactFrames(gaze_values)
        here == 1000 * W_NOT_AWAY * (n - LookingAwayFrames(gaze_values))
    IN  IF Spread(gaze_values) >= 25 * n * n
            THEN round(eye + here, n)
            ELSE (2 * (eye + here + 1000 * W_STABILITY * n) + n
                    - CeilSqrt(16 * W_STABILITY * W_STABILITY * 10000 * Spread(gaze_values)))
                 \div (2 * n)

\* round(avg_eye_contact * 0.4 + gaze_stability * 0.3
\*       + (100 - looking_away_percentage) * 0.3, 2), from the values before
\* rounding: avg_eye_contact = np.mean(eye_contact_scores) * 100
AttentionScore(gaze_values, eye_contact_scores) ==
    LET n == Len(gaze_values)
        eye == 100 * W_EYE_CONTACT * Sum(eye_contact_scores)
        here == 1000 * W_NOT_AWAY * (n - LookingAwayFrames(gaze_values))
    IN  IF Spread(gaze_values) >= 25 * n * n
            THEN round(eye + here, n)
            ELSE (2 * (eye + here + 1000 * W_STABILITY * n) + n
                    - CeilSqrt(16 * W_STABILITY * W_STABILITY * 10000 * Spread(gaze_values)))
                 \div (2 * n)

\* the summary when MediaPipe is not available
FallbackSummaryBad ==
    [face_detection_rate |-> [num |-> 50, den |-> 1],
     eye_contact_percentage |-> 7000,
     gaze_stability |-> 7500,
     attention_score |-> 7000,
     looking_away_percentage |-> 3000,
     frames_analyzed |-> 0,
     analysis_notes |-> "Analysis completed successfully"]

FallbackSummary ==
    [face_detection_rate |-> [num |-> 50, den |-> 1],
     eye_contact_percentage |-> 7000,
     gaze_stability |-> 7500,
     attention_score |-> 7000,
     looking_away_percentage |-> 3000,
     frames_analyzed |-> 0,
     analysis_notes |-> "MediaPipe not available - using fallback metrics"]

\* the summary when len(gaze_values) == 0
NoFaceSummaryBad(frames_analyzed) ==
    [face_detection_rate |-> [num |-> 0, den |-> 1],
     eye_contact_percentage |-> 0,
     gaze_stability |-> 0,
     attention_score |-> 1000 * W_NOT_AWAY,
     looking_away_percentage |-> 0,
     frames_analyzed |-> frames_analyzed,
     analysis_notes |-> "No face detected in video"]

NoFaceSummary(frames_analyzed) ==
    [face_detection_rate |-> [num |-> 0, den |-> 1],
     eye_contact_percentage |-> 0,
     gaze_stability |-> 0,
     attention_score |-> 0,
     looking_away_percentage |-> 0,
     frames_analyzed |-> frames_analyzed,
     analysis_notes |-> "No face detected in video"]

\* the summary of the gaze values collected; face_detection_rate is not
\* rounded and is kept as the fraction num / den
MeasuredSummary(acc) ==
    [face_detection_rate |-> [num |-> 100 * acc.frames_with_face, den |-> acc.frames_analyzed],
     eye_contact_percentage |->
         round(10000 * EyeContactFrames(acc.gaze_values), Len(acc.gaze_values)),
     gaze_stability |-> GazeStability(acc.gaze_values),
     attention_score |-> AttentionScore(acc.gaze_values, acc.eye_contact_scores),
     looking_away_percentage |->
         round(10000 * LookingAwayFrames(acc.gaze_values), Len(acc.gaze_values)),
     frames_analyzed |-> acc.frames_analyzed,
     frames_with_face |-> acc.frames_with_face,
     analysis_notes |-> "Analysis completed successfully"]

GazeRaises(e) == [raised |-> TRUE, error |-> e, summary |-> <<>>, locals |-> NoSamples]
GazeReturns(summary, acc) == [raised |-> FALSE, error |-> "", summary |-> summary, locals |-> acc]

\* analyze_video(video_path, sample_rate, max_frames) for the call
\* in = [frames, sample_rate, max_frames, exists, mediapipe, opens]
analyze_video(in) ==
    IF ~in.exists THEN GazeRaises("FileNotFoundError")
    ELSE IF ~in.mediapipe THEN GazeReturns(FallbackSummary, NoSamples)
    ELSE IF ~in.opens THEN GazeRaises("ValueError")
    ELSE LET acc == Sample(in.frames, in.sample_rate, in.max_frames, 0, NoSamples)
         IN  IF Len(acc.gaze_values) = 0
                 THEN GazeReturns(NoFaceSummary(acc.frames_analyzed), acc)
                 ELSE GazeReturns(MeasuredSummary(acc), acc)

----------------------------------------------------------------------------
(* SpecGaze: one call of analyze_video *)

InitGazeOnly ==
    /\ gpc = "call"
    /\ \E n \in 0..MaxFrames :
         \E frames \in [1..n -> FrameKinds] :
         \E sample_rate \in 1..MaxStride, max_frames \in 0..MaxBudget :
         \E exists \in BOOLEAN, mediapipe \in BOOLEAN, opens \in BOOLEAN :
            gIn = [frames |-> frames, sample_rate |-> sample_rate,
                   max_frames |-> max_frames, exists |-> exists,
                   mediapipe |-> mediapipe, opens |-> opens]
    /\ gOut = <<>>

AnalyzeVideo ==
    /\ gpc = "call"
    /\ gOut' = <<analyze_video(gIn)>>
    /\ gpc' = "done"
    /\ UNCHANGED <<gIn, fvars, bvars, pvars, tvars, lvars, dvars>>

----------------------------------------------------------------------------
(* modules/transcription.py: get_whisper_model; modules/eye_tracking.py:    *)
(* get_face_detector.  One step per read or write of a module global.       *)

\* calls of the getters in a run, over all threads
MaxCalls == 3

\* model_size: the default of transcribe_video and of get_whisper_model, and
\* the default of transcribe_with_timestamps
ModelSizes == {"large-v3-turbo", "small"}
Getters == {"get_whisper_model", "get_face_detector"}

Idle == [pc |-> "idle", fn |-> "", model_size |-> "", new |-> 0]

\* a call that has ended: handle 0 is None
Ended(t, handle, raised) ==
    [thread |-> t, fn |-> callers[t].fn, model_size |-> callers[t].model_size,
     handle |-> handle, raised |-> raised, constructed |-> callers[t].new # 0]

\* a thread calls a getter
CallGetter(t) ==
    /\ callers[t].pc = "idle"
    /\ Len(calls) + Cardinality({u \in threads : callers[u].pc # "idle"}) < MaxCalls
    /\ \E fn \in Getters, model_size \in ModelSizes :
          /\ fn = "get_face_detector" => model_size = "small"
          /\ callers' = [callers EXCEPT ![t] =
                            [pc |-> "test", fn |-> fn,
                             model_size |-> IF fn = "get_whisper_model" THEN model_size ELSE "",
                             new |-> 0]]
    /\ UNCHANGED <<threads, MEDIAPIPE_AVAILABLE, model, current_model_size,
                   face_detector, built, calls>>
    /\ UNCHANGED <<fvars, bvars, pvars, tvars, gvars, dvars>>

\* the test of get_whisper_model without the comparison of sizes
TestIgnoresSize(t) ==
    /\ callers[t].pc = "test"
    /\ \/ /\ callers[t].fn = "get_whisper_model"
          /\ callers' = [callers EXCEPT ![t].pc =
                            IF model = 0 THEN "construct" ELSE "return"]
          /\ calls' = calls
       \/ /\ callers[t].fn = "get_face_detector"
          /\ IF ~MEDIAPIPE_AVAILABLE
               THEN /\ calls' = Append(calls, Ended(t, 0, FALSE))
                    /\ callers' = [callers EXCEPT ![t] = Idle]
               ELSE /\ calls' = calls
                    /\ callers' = [callers EXCEPT ![t].pc =
                                      IF face_detector = 0 THEN "construct" ELSE "return"]
    /\ UNCHANGED <<threads, MEDIAPIPE_AVAILABLE, model, current_model_size,
                   face_detector, built>>
    /\ UNCHANGED <<fvars, bvars, pvars, tvars, gvars, dvars>>

\* if _model is None or _current_model_size != model_size:
\* if not MEDIAPIPE_AVAILABLE: return None;  if _face_detector is None:
Test(t) ==
    /\ callers[t].pc = "test"
    /\ \/ /\ callers[t].fn = "get_whisper_model"
          /\ callers' = [callers EXCEPT ![t].pc =
                            IF model = 0 \/ current_model_size # callers[t].model_size
                                THEN "construct" ELSE "return"]
          /\ calls' = calls
       \/ /\ callers[t].fn = "get_face_detector"
          /\ IF ~MEDIAPIPE_AVAILABLE
               THEN /\ calls' = Append(calls, Ended(t, 0, FALSE))
                    /\ callers' = [callers EXCEPT ![t] = Idle]
               ELSE /\ calls' = calls
                    /\ callers' = [callers EXCEPT ![t].pc =
                                      IF face_detector = 0 THEN "construct" ELSE "return"]
    /\ UNCHANGED <<threads, MEDIAPIPE_AVAILABLE, model, current_model_size,
                   face_detector, built>>
    /\ UNCHANGED <<fvars, bvars, pvars, tvars, gvars, dvars>>

\* WhisperModel(...) / download_model_if_needed() and
\* FaceLandmarker.create_from_options(options): a new object, or an exception,
\* which leaves the function (get_whisper_model re-raises it)
Construct(t) ==
    /\ callers[t].pc = "construct"
    /\ \/ /\ built' = Append(built, [fn |-> callers[t].fn,
                                     model_size |-> callers[t].model_size,
                                     handle |-> Len(built) + 1])
          /\ callers' = [callers EXCEPT ![t].new = Len(built) + 1, ![t].pc = "store"]
          /\ calls' = calls
       \/ /\ built' = built
          /\ calls' = Append(calls, Ended(t, 0, TRUE))
          /\ callers' = [callers EXCEPT ![t] = Idle]
    /\ UNCHANGED <<threads, MEDIAPIPE_AVAILABLE, model, current_model_size, face_detector>>
    /\ UNCHANGED <<fvars, bvars, pvars, tvars, gvars, dvars>>

\* _model = <the new object>;  _face_detector = <the new object>
Store(t) ==
    /\ callers[t].pc = "store"
    /\ IF callers[t].fn = "get_whisper_model"
         THEN /\ model' = callers[t].new
              /\ face_detector' = face_detector
              /\ callers' = [callers EXCEPT ![t].pc = "store_size"]
         ELSE /\ face_detector' = callers[t].new
              /\ model' = model
              /\ callers' = [callers EXCEPT ![t].pc = "return"]
    /\ UNCHANGED <<threads, MEDIAPIPE_AVAILABLE, current_model_size, built, calls>>
    /\ UNCHANGED <<fvars, bvars, pvars, tvars, gvars, dvars>>

\* _current_model_size = model_size
StoreSize(t) ==
    /\ callers[t].pc = "store_size"
    /\ current_model_size' = callers[t].model_size
    /\ callers' = [callers EXCEPT ![t].pc = "return"]
    /\ UNCHANGED <<threads, MEDIAPIPE_AVAILABLE, model, face_detector, built, calls>>
    /\ UNCHANGED <<fvars, bvars, pvars, tvars, gvars, dvars>>

\* return _model;  return _face_detector: the global is read again
ReturnHandle(t) ==
    /\ callers[t].pc = "return"
    /\ calls' = Append(calls,
                       Ended(t, IF callers[t].fn = "get_whisper_model"
                                    THEN model ELSE face_detector, FALSE))
    /\ callers' = [callers EXCEPT ![t] = Idle]
    /\ UNCHANGED <<threads, MEDIAPIPE_AVAILABLE, model, current_model_size,
                   face_detector, built>>
    /\ UNCHANGED <<fvars, bvars, pvars, tvars, gvars, dvars>>

\* a fresh process: no handle yet
InitLazyOnly(T) ==
    /\ threads = T
    /\ MEDIAPIPE_AVAILABLE \in BOOLEAN
    /\ model = 0
    /\ current_model_size = "None"
    /\ face_detector = 0
    /\ callers = [t \in T |-> Idle]
    /\ built = <<>>
    /\ calls = <<>>

----------------------------------------------------------------------------
(* The specifications *)

\* a question of a request: with a video and its URL, marked as having no
\* video, or without a URL
QuestionKinds ==
    {[isVideoExist |-> TRUE, recordedVideoUrl |-> "url"],
     [isVideoExist |-> FALSE, recordedVideoUrl |-> "url"],
     [isVideoExist |-> TRUE, recordedVideoUrl |-> ""]}

\* a request: up to MaxQuestions questions
Requests == UNION {[1..n -> QuestionKinds] : n \in 0..MaxQuestions}

FuseIdle ==
    /\ fpc = "off"
    /\ fIn = <<>>
    /\ fOut = <<>>

BatchIdle ==
    /\ path = "api"
    /\ request = <<>>
    /\ bpc = "off"
    /\ idx = 0
    /\ results = <<>>
    /\ scores = <<>>
    /\ log = <<>>
    /\ out = <<>>

ParseIdle ==
    /\ tpc = "off"
    /\ tIn = <<>>
    /\ tOut = <<>>

GazeIdle ==
    /\ gpc = "off"
    /\ gIn = <<>>
    /\ gOut = <<>>

DecideIdle ==
    /\ dIn = <<>>
    /\ dOut = <<>>

LazyIdle ==
    /\ threads = {}
    /\ MEDIAPIPE_AVAILABLE = TRUE
    /\ model = 0
    /\ current_model_size = "None"
    /\ face_detector = 0
    /\ callers = <<>>
    /\ built = <<>>
    /\ calls = <<>>

Init ==
    /\ FuseIdle
    /\ ParseIdle
    /\ GazeIdle
    /\ LazyIdle
    /\ DecideIdle
    /\ path \in {"api", "ui"}
    /\ \E m \in Requests :
         /\ path = "ui" => \A i \in DOMAIN m : m[i].isVideoExist
         /\ request = [i \in DOMAIN m |->
                          [positionId |-> i, isVideoExist |-> m[i].isVideoExist,
                           recordedVideoUrl |-> m[i].recordedVideoUrl]]
    /\ bpc = "start"
    /\ idx = 0
    /\ results = <<>>
    /\ scores = <<>>
    /\ log = <<>>
    /\ out = <<>>
    /\ IdlePipeline

Next ==
    \/ Begin
    \/ Skip
    \/ Call
    \/ ProgressRaises
    \/ Retrieve
    \/ Transcribe
    \/ Gaze
    \/ Assess
    \/ Finally
    \/ Collect
    \/ Aggregate

Spec == Init /\ [][Next]_vars

InitFuse ==
    /\ InitFuseOnly
    /\ BatchIdle
    /\ IdlePipeline
    /\ ParseIdle
    /\ GazeIdle
    /\ LazyIdle
    /\ DecideIdle

NextFuse == AssessInterview

SpecFuse == InitFuse /\ [][NextFuse]_vars

InitParse ==
    /\ InitParseOnly
    /\ FuseIdle
    /\ BatchIdle
    /\ IdlePipeline
    /\ GazeIdle
    /\ LazyIdle
    /\ DecideIdle

NextParse == ParseResponse

SpecParse == InitParse /\ [][NextParse]_vars

InitGaze ==
    /\ InitGazeOnly
    /\ FuseIdle
    /\ BatchIdle
    /\ IdlePipeline
    /\ ParseIdle
    /\ LazyIdle
    /\ DecideIdle

NextGaze == AnalyzeVideo

SpecGaze == InitGaze /\ [][NextGaze]_vars

\* the calls of one thread, one after the other
InitLazy ==
    /\ InitLazyOnly({1})
    /\ FuseIdle
    /\ BatchIdle
    /\ IdlePipeline
    /\ ParseIdle
    /\ GazeIdle
    /\ DecideIdle

NextLazy ==
    \/ \E t \in threads : CallGetter(t)
    \/ \E t \in threads : Test(t)
    \/ \E t \in threads : Construct(t)
    \/ \E t \in threads : Store(t)
    \/ \E t \in threads : StoreSize(t)
    \/ \E t \in threads : ReturnHandle(t)

SpecLazy == InitLazy /\ [][NextLazy]_vars

\* two threads calling at the same time
InitRace ==
    /\ InitLazyOnly({1, 2})
    /\ FuseIdle
    /\ BatchIdle
    /\ IdlePipeline
    /\ ParseIdle
    /\ GazeIdle
    /\ DecideIdle

SpecRace == InitRace /\ [][NextLazy]_vars

\* the decision of a batch of 1 to MaxBatch results with scores 0 .. MAX_SCORE
InitDecide ==
    /\ \E n \in 1..MaxBatch : dIn \in [1..n -> 0..MAX_SCORE]
    /\ dOut = <<>>
    /\ FuseIdle
    /\ BatchIdle
    /\ IdlePipeline
    /\ ParseIdle
    /\ GazeIdle
    /\ LazyIdle

NextDecide == Decide

SpecDecide == InitDecide /\ [][NextDecide]_vars

----------------------------------------------------------------------------
(* Properties *)

Returned == ppc = "returned"
Res == result[1]
FuseCalled == fpc = "done"
FOut == fOut[1]

\* the stages that started, as a set
StagesRun == {stages[i] : i \in DOMAIN stages}

\* the score of a run of process_single_interview that got through FUSE:
\* the score assess_interview returned, 2 if it raised
FusedScore == IF fres[1].raised THEN DEFAULT_SCORE ELSE fres[1].score

\* The outcomes of process_single_interview when no progress callback raises:
\* retrieval failed and only RETRIEVE ran, or all four stages ran and the
\* score is the fused one.
CallbackFreeOutcome ==
    \/ /\ cur.retrieve = "failed"
       /\ stages = <<"RETRIEVE">>
       /\ Res.score = 0
       /\ "error" \in DOMAIN Res
    \/ /\ cur.retrieve = "ok"
       /\ stages = Stages
       /\ fres # <<>>
       /\ Res.score = FusedScore
       /\ "error" \notin DOMAIN Res

\* Without a raising callback the pipeline has exactly those outcomes.
CallbackFreeRuns == Returned /\ ~cbRaised => CallbackFreeOutcome

FailureText == IF fIn.key = "missing" THEN get_gemini_client(fIn.key).error ELSE fIn.engine

C2_FusionNeverRaises ==
    FuseCalled =>
        /\ ~FOut.raised
        /\ (fIn.engine \in EngineErrors \/ fIn.key = "missing") =>
              /\ FOut.score = 2
              /\ FOut.reason = <<"Gemini API error", FailureText>>

\* The part of C2 that holds: an error of the engine, raised inside the try
\* block, is returned as score 2 with the error text.
EngineErrorsAreConverted ==
    FuseCalled /\ fIn.key = "set" /\ fIn.engine \in EngineErrors =>
        /\ ~FOut.raised
        /\ FOut.score = 2
        /\ FOut.reason = <<"Gemini API error", fIn.engine>>

\* the judgment of a call in which the engine answered with a judgment whose
\* scores, where present, are numbers
Answered ==
    /\ FuseCalled /\ fIn.key = "set" /\ fIn.engine = "ok" /\ fIn.response.parsable
    /\ FuseError(fIn.response.judgment) = ""
Nums == fIn.response.judgment.nums
Flag == Get(fIn.response.judgment.flags, "integrity_flag", "clean")

\* raw score and sub-scores all present, integers in 0..4
InRange ==
    /\ DOMAIN Nums = NumKeys /\ \A k \in NumKeys : Nums[k] \in 0..4
    /\ ~fIn.response.judgment.frac

\* 200 * (0.75 * ((s1 + s2) / 2) + 0.15 * r + 0.10 * s3)
Formula200 ==
    75 * (Nums["star_score"] + Nums["argumentation_score"])
        + 30 * Nums["score"] + 20 * Nums["fluency_score"]

Clamp04(k) == IF k < 0 THEN 0 ELSE IF k > 4 THEN 4 ELSE k

C4_SuspiciousSubtractsTwo ==
    Answered /\ Flag = "suspicious" =>
        /\ FOut.base \in 0..4
        /\ FOut.score = (IF FOut.base >= 2 THEN FOut.base - 2 ELSE 0)

\* C4 witness: base 1 gives 0.
C4_Witness == Answered /\ Flag = "suspicious" /\ FOut.base = 1 /\ FOut.score = 0

\* C5: once RETRIEVE has failed, no other stage runs for the question, and
\* the result has score 0 and the fixed error message.
C5_RetrieveFailureShortCircuits ==
    cur.retrieve = "failed" =>
        /\ ppc \in {"finally", "returned"}
        /\ stages = <<"RETRIEVE">>
        /\ cur.transcribe = "not_run"
        /\ cur.gaze = "not_run"
        /\ fres = <<>>
        /\ Res.score = 0
        /\ Res.error = "Failed to download video from Google Drive"

\* C5 witness: a run that returned after a failed retrieval.
C5_Witness == Returned /\ cur.retrieve = "failed" /\ Res.score = 0

\* C6: a failure of TRANSCRIBE or of GAZE_AGGREGATE is replaced by its default
\* and the next stage runs; the run ends with FUSE and the score is the fused
\* one, not an error result.  (A progress callback that raises ends the run
\* whatever the stages did: that is C7's case.)
C6_StageFailuresAreAbsorbed ==
    /\ cur.transcribe = "failed" =>
          /\ loc.transcript = ""
          /\ loc.metadata = "error"
          /\ ppc \in {"gaze", "fuse", "finally", "returned"}
          /\ ~cbRaised /\ ppc # "gaze" => "GAZE_AGGREGATE" \in StagesRun
    /\ cur.gaze = "failed" =>
          /\ "error" \in DOMAIN loc.eye_metrics
          /\ loc.eye_metrics.eye_contact_percentage = 0
          /\ ppc \in {"fuse", "finally", "returned"}
          /\ ~cbRaised /\ ppc # "fuse" => "FUSE" \in StagesRun
    /\ Returned /\ ~cbRaised /\ "failed" \in {cur.transcribe, cur.gaze} =>
          /\ stages = Stages
          /\ fres # <<>>
          /\ Res.score = FusedScore
          /\ "error" \notin DOMAIN Res
          /\ Res.transcript = loc.transcript
          /\ Res.transcript_metadata = loc.metadata
          /\ Res.eye_metrics = loc.eye_metrics

\* C6 witness: both stages failed and the result carries the score 3 that
\* assess_interview returned.
C6_Witness ==
    /\ Returned
    /\ cur.transcribe = "failed"
    /\ cur.gaze = "failed"
    /\ fres # <<>>
    /\ ~fres[1].raised
    /\ fres[1].score = 3
    /\ Res.score = 3

\* C7: a progress callback that raises does not change the outcome: the run
\* ends in one of the outcomes of the runs in which no callback raises.
C7_ProgressFailureIsHarmless == Returned => CallbackFreeOutcome

\* the batch function has returned
Done == bpc = "done"
Out == out[1]
ProgressFailed == ~Out.success /\ Out.error = "progress failed"
Labels == {"PASSED", "Need Human", "FAILED"}
OutScores == [i \in DOMAIN Out.scores |-> Out.scores[i].score]
AllZero(scs) == \A i \in DOMAIN scs : scs[i] = 0

RetrieveFailures == {i \in DOMAIN log : log[i].retrieve = "failed"}

C9_OneRetrievalFailureOfThree ==
    /\ Done /\ ~ProgressFailed /\ Len(Interviews) = 3
            /\ (\A i \in 1..3 : HasMedia(Interviews[i])) =>
          /\ Out.success
          /\ Len(log) = 3
          /\ Cardinality(RetrieveFailures) = 1 =>
                /\ Len(Out.scores) = 3
                /\ \A i \in 1..3 :
                      /\ Out.scores[i].id = Interviews[i].positionId
                      /\ Out.scores[i].score = log[i].score
                      /\ i \in RetrieveFailures => Out.scores[i].score = 0
    /\ Returned /\ ~cbRaised /\ cur.retrieve = "ok" => Res.score = FusedScore

\* C9 witness: the second of three questions failed to download; the scores
\* reported are 4, 0 and 3.
C9_Witness ==
    /\ Done
    /\ Out.success
    /\ Len(log) = 3
    /\ RetrieveFailures = {2}
    /\ OutScores = <<4, 0, 3>>

\* C10: the decision is the one the thresholds give for the mean of the
\* reported scores (0 without scores), on both paths, and the label the UI
\* shows is the same decision.
MeanAtLeast(scs, t) == IF Len(scs) = 0 THEN 0 >= t ELSE Sum(scs) >= t * Len(scs)

C10_DecisionFollowsMean ==
    Done /\ Out.success =>
        /\ Out.decision = "PASSED" <=> MeanAtLeast(OutScores, 3)
        /\ Out.decision = "Need Human" <=>
              MeanAtLeast(OutScores, 2) /\ ~MeanAtLeast(OutScores, 3)
        /\ Out.decision = "FAILED" <=> ~MeanAtLeast(OutScores, 2)
        /\ path = "ui" =>
              /\ Out.display = "PASSED (display)" <=> Out.decision = "PASSED"
              /\ Out.display = "REVIEW (display)" <=> Out.decision = "Need Human"
              /\ Out.display = "FAILED (display)" <=> Out.decision = "FAILED"

\* C10 witness: scores 3, 4 and 2 on the UI path, mean exactly 3: PASSED.
C10_Witness ==
    /\ Done
    /\ path = "ui"
    /\ Out.success
    /\ OutScores = <<3, 4, 2>>
    /\ Out.decision = "PASSED"

\* C11 (as stated): the percentage of a successful batch output is
\* 100 * sum(scores) / (4 * count) rounded to the nearest tenth (either
\* neighbour on a tie) and 0 without scores; [4,4,4,4] gives mean 4, PASSED and
\* 100.0, [1,1] gives mean 1, FAILED and 25.0, [2,3] gives mean 2.5,
\* NEEDS_REVIEW and 62.5.  Percentages are in tenths of a percent.
Pct == Out.interview_score_pct
NearestTenth == 2 * (Pct * 4 * Out.count - 1000 * Out.total_score) \in
                    (0 - 4 * Out.count)..(4 * Out.count)

Parsed == tpc = "done"
TOut == tOut[1]

\* C13: parse_gemini_response never raises; when the whole text, the fenced
\* block and the brace-delimited substring all fail to decode it returns the
\* default judgment (raw score 2, confidence LOW, the error rationale), and
\* assess_interview on that default returns the score 2.
C13_ParserNeverRaises ==
    Parsed =>
        /\ ~TOut.raised
        /\ TOut.strategy = "none" =>
              /\ TOut.assessment.nums = [k \in {"score"} |-> 2]
              /\ TOut.assessment.confidence_level = "LOW"
              /\ TOut.assessment.texts = [k \in {"reasoning"} |-> "Could not parse response"]
              /\ TOut.assessment.error = "Response parsing failed"
              /\ TOut.fused.score = 2

\* The part of C13 that holds: without an exception, a text none of whose
\* strategies decodes gives the default judgment, which fuses to 2.
UndecodableTextGivesDefault ==
    Parsed /\ ~TOut.raised /\ TOut.strategy = "none" =>
        /\ TOut.assessment.nums = [k \in {"score"} |-> 2]
        /\ TOut.assessment.confidence_level = "LOW"
        /\ TOut.assessment.error = "Response parsing failed"
        /\ TOut.fused.score = 2

\* An exception of the parser is caught by assess_interview.
ParserErrorsAreConverted ==
    Parsed /\ TOut.raised =>
        /\ ~TOut.fused.raised
        /\ TOut.fused.score = 2
        /\ TOut.fused.reason = <<"Gemini API error", TOut.exception>>

\* C14: for every judgment J the text J, J in a fenced block (tagged json or
\* not) and the fenced block between prose all decode to J; and the parser
\* returns the value of the first strategy that decodes, in the order whole
\* text, fenced block tagged json, fenced block, brace-delimited substring.
JudgmentPieces == {"J1", "J2", "Jf"}
Prose == {<<>>, <<"T">>}
Wrapped(j) == {pre \o <<f, j, "F">> \o post : f \in {"F", "Fj"}, pre \in Prose, post \in Prose}
StrategyOrder == <<"direct", "fenced_json", "fenced", "braces">>
Extracted(strategy, text) ==
    IF strategy = "direct" THEN [matched |-> TRUE, group |-> Str(FALSE, text, FALSE)]
    ELSE re_search(strategy, text)
Decodes(strategy, text) ==
    Extracted(strategy, text).matched /\ json_loads(Extracted(strategy, text).group).status = "ok"

C14_FencedEqualsUnwrapped ==
    Parsed =>
        /\ \A j \in JudgmentPieces :
              tIn = <<j>> \/ tIn \in Wrapped(j) =>
                  /\ ~TOut.raised
                  /\ TOut.piece = j
                  /\ TOut.assessment.nums = JsonValue(j).nums
                  /\ TOut.assessment.flags = JsonValue(j).flags
                  /\ TOut.assessment.error = ""
        /\ ~TOut.raised =>
              \/ /\ TOut.strategy = "none"
                 /\ \A i \in 1..4 : ~Decodes(StrategyOrder[i], tIn)
              \/ \E i \in 1..4 :
                   /\ TOut.strategy = StrategyOrder[i]
                   /\ Decodes(StrategyOrder[i], tIn)
                   /\ \A k \in 1..(i - 1) : ~Decodes(StrategyOrder[k], tIn)
                   /\ TOut.piece = json_loads(Extracted(StrategyOrder[i], tIn).group).piece

\* C14 witness: a judgment whose text holds ```, in a block tagged json: both
\* fence patterns cut it short, the brace pattern recovers it.
C14_Witness ==
    /\ Parsed
    /\ tIn = <<"Fj", "Jf", "F">>
    /\ TOut.strategy = "braces"
    /\ TOut.piece = "Jf"
    /\ TOut.assessment.nums = JsonValue("Jf").nums

\* C15: the score of every per-question result is an integer in 0..4: the
\* result of process_single_interview, the score assess_interview returned
\* for it, the scores the batch function collects and the scores it reports,
\* whatever the answer of the engine (raw score or sub-scores out of range,
\* fractional or not numbers, no judgment at all), whichever stage failed.
C15_FinalScoreInRange ==
    /\ result # <<>> => Res.score \in 0..4
    /\ fres # <<>> /\ ~fres[1].raised => fres[1].score \in 0..4
    /\ \A i \in DOMAIN scores : scores[i] \in 0..4
    /\ \A i \in DOMAIN results : results[i].score \in 0..4
    /\ Done /\ Out.success => \A i \in DOMAIN Out.scores : Out.scores[i].score \in 0..4

\* The same for every call of assess_interview that returns.
FusedScoreInRange == FuseCalled /\ ~FOut.raised => FOut.score \in 0..4

\* C15 witness: the engine answered with sub-scores of 5; the weighted sum is
\* 4.75 and the result has score 4.
C15_Witness ==
    /\ Returned
    /\ fres # <<>>
    /\ ~fres[1].raised
    /\ DOMAIN fres[1].consumed # {}
    /\ fres[1].consumed["star_score"] = 5
    /\ fres[1].weighted200 = 950
    /\ Res.score = 4

\* C20: every sub-score (narrative, argumentation, fluency) that the fusion
\* consumes lies in 0..4, whatever the engine answered.
C20_SubScoresInRange ==
    FuseCalled /\ ~FOut.raised =>
        \A k \in DOMAIN FOut.consumed : FOut.consumed[k] \in 0..4

\* What holds instead: a sub-score the answer lacks is replaced by the raw
\* score, which is clamped to 0..4; a sub-score the answer holds is consumed
\* as it is.
SubScoresAreConsumedUnclamped ==
    Answered =>
        \A k \in SubKeys :
            FOut.consumed[k] = (IF k \in DOMAIN Nums THEN Nums[k] ELSE FOut.assessment_score)

\* analyze_video has returned or raised
Analyzed == gpc = "done"
GOut == gOut[1]
Summary == GOut.summary
Samples == GOut.locals
PercentFields == {"eye_contact_percentage", "gaze_stability", "attention_score",
                  "looking_away_percentage"}
NoteMeasured == "Analysis completed successfully"
NoteNoFace == "No face detected in video"
NoteFallback == "MediaPipe not available - using fallback metrics"

\* C16 (as stated): in every summary returned, the attention score is
\* 0.4 * eye_contact_percentage + 0.3 * gaze_stability
\* + 0.3 * (100 - looking_away_percentage) of the summary's own fields, up to
\* the rounding of the fields to two decimals (0.01 in all).
C16_AttentionFromReportedFields ==
    Analyzed /\ ~GOut.raised =>
        Abs(100 * Summary.attention_score
              - (40 * Summary.eye_contact_percentage + 30 * Summary.gaze_stability
                   + 30 * (10000 - Summary.looking_away_percentage))) <= 100

\* C16 (amended): in a summary computed from detected faces the attention
\* score is 0.4 * E + 0.3 * gaze_stability + 0.3 * (100 - looking_away_percentage)
\* up to the rounding, E being 100 times the mean of the eye contact scores
\* of the frames, which is not a field of the summary; the no-face summary
\* has the attention score 0 and the fallback summary 70.
C16_AttentionFromMeanEyeContact ==
    Analyzed /\ ~GOut.raised =>
        /\ Summary.analysis_notes = NoteMeasured =>
              LET n == Len(Samples.eye_contact_scores) IN
              /\ n > 0
              /\ \A i \in 1..n :
                    Samples.eye_contact_scores[i] = 10 - 2 * Abs(Samples.gaze_values[i] - 5)
              /\ Abs(100 * n * Summary.attention_score
                       - (40000 * Sum(Samples.eye_contact_scores)
                            + 30 * n * Summary.gaze_stability
                            + 30 * n * (10000 - Summary.looking_away_percentage))) <= 80 * n
        /\ Summary.analysis_notes = NoteNoFace => Summary.attention_score = 0
        /\ Summary.analysis_notes = NoteFallback => Summary.attention_score = 7000

\* C16 witness: one frame with gaze 0.7: eye contact percentage 100, eye
\* contact score 0.6, attention score 84.
C16_Witness ==
    /\ Analyzed
    /\ ~GOut.raised
    /\ Samples.gaze_values = <<7>>
    /\ Summary.eye_contact_percentage = 10000
    /\ Summary.gaze_stability = 10000
    /\ Summary.looking_away_percentage = 0
    /\ Summary.attention_score = 8400

\* the frames the loop processes: every sample_rate-th frame from the first,
\* until max_frames of them (at least one) have been processed
Processed ==
    {i \in 1..Len(gIn.frames) :
        /\ (i - 1) % gIn.sample_rate = 0
        /\ (i - 1) \div gIn.sample_rate < Max(1, gIn.max_frames)}
Runs == gIn.exists /\ gIn.mediapipe /\ gIn.opens

\* C17: when no processed frame yields a face, a video without frames
\* included, analyze_video returns, and returns the summary whose face
\* detection rate, eye contact, stability, attention and looking-away are 0
\* and whose note is the no-face note.
C17_NoFaceGivesZeroSummary ==
    Analyzed /\ Runs /\ (\A i \in Processed : ~gIn.frames[i].face) =>
        /\ ~GOut.raised
        /\ Summary.face_detection_rate.num = 0
        /\ \A f \in PercentFields : Summary[f] = 0
        /\ Summary.analysis_notes = NoteNoFace
        /\ Summary.frames_analyzed = Cardinality(Processed)

\* C17 witness: a video without frames.
C17_Witness ==
    /\ Analyzed
    /\ Runs
    /\ gIn.frames = <<>>
    /\ ~GOut.raised
    /\ Summary.attention_score = 0
    /\ Summary.frames_analyzed = 0
    /\ Summary.analysis_notes = NoteNoFace

\* C18: the summary has the fallback note exactly when MediaPipe is not
\* available, and then it is the fixed fallback summary; a summary computed
\* with MediaPipe has one of the two other notes, which differ from it.
C18_FallbackNoteIsDistinct ==
    Analyzed /\ ~GOut.raised =>
        /\ Summary.analysis_notes = NoteFallback <=> ~gIn.mediapipe
        /\ ~gIn.mediapipe =>
              /\ Summary.eye_contact_percentage = 7000
              /\ Summary.gaze_stability = 7500
              /\ Summary.looking_away_percentage = 3000
              /\ Summary.frames_analyzed = 0
        /\ gIn.mediapipe =>
              /\ Summary.analysis_notes \in {NoteMeasured, NoteNoFace}
              /\ Summary.analysis_notes = NoteNoFace <=> Samples.gaze_values = <<>>
        /\ NoteFallback \notin {NoteMeasured, NoteNoFace}

\* C18 witness: MediaPipe is not available, a video with a face in a frame.
C18_Witness ==
    /\ Analyzed
    /\ gIn.exists
    /\ ~gIn.mediapipe
    /\ Len(gIn.frames) > 0
    /\ gIn.frames[1].face
    /\ ~GOut.raised
    /\ Summary.analysis_notes = NoteFallback

\* C19: the face detection rate, the eye contact percentage, the gaze
\* stability, the looking-away percentage and the attention score of every
\* summary returned lie in 0..100.
C19_PercentagesInRange ==
    Analyzed /\ ~GOut.raised =>
        /\ \A f \in PercentFields : Summary[f] \in 0..10000
        /\ Summary.face_detection_rate.den > 0
        /\ Summary.face_detection_rate.num \in 0..(100 * Summary.face_detection_rate.den)

\* C19 witness: the iris of one frame left of the eye, of the next right of
\* it: gaze 0 and 1, stability 0, attention 0, looking away 100; a third
\* frame without a face.
C19_Witness ==
    /\ Analyzed
    /\ ~GOut.raised
    /\ Len(gIn.frames) = 3
    /\ gIn.frames[1].iris < 0
    /\ gIn.frames[2].iris > 10
    /\ Samples.gaze_values = <<0, 10>>
    /\ Samples.frames_analyzed = 3
    /\ Summary.gaze_stability = 0
    /\ Summary.attention_score = 0
    /\ Summary.looking_away_percentage = 10000

\* the raw rubric score of the judgment as the fusion takes it: 2 when the
\* judgment has none, truncated towards 0 when it is not an integer, limited
\* to 0..4
RawClamped ==
    IF "score" \notin DOMAIN Nums THEN 2
    ELSE IF fIn.response.judgment.frac /\ Nums["score"] < 0 THEN Clamp04(Nums["score"] + 1)
    ELSE Clamp04(Nums["score"])

\* C21: a sub-score the judgment does not hold enters the weighted sum as the
\* clamped raw score, a sub-score it holds as it is; when the judgment holds
\* none of the three and the flag is not "suspicious", the final score is the
\* clamped raw score.
C21_AbsentSubScoreDefaultsToRaw ==
    Answered =>
        /\ \A k \in SubKeys \ DOMAIN Nums : FOut.consumed[k] = RawClamped
        /\ \A k \in SubKeys \cap DOMAIN Nums : FOut.consumed[k] = Nums[k]
        /\ FOut.weighted200 =
              75 * (FOut.consumed["star_score"] + FOut.consumed["argumentation_score"])
                 + 30 * RawClamped + 20 * FOut.consumed["fluency_score"]
        /\ (SubKeys \cap DOMAIN Nums = {} /\ Flag # "suspicious") => FOut.score = RawClamped

\* C21 witness: raw score 4 and no sub-score, flag absent: every sub-score is
\* taken as 4 and the final score is 4.
C21_Witness ==
    /\ Answered
    /\ DOMAIN Nums = {"score"}
    /\ Nums["score"] = 4
    /\ ~fIn.response.judgment.frac
    /\ DOMAIN fIn.response.judgment.flags = {}
    /\ \A k \in SubKeys : FOut.consumed[k] = 4
    /\ FOut.weighted200 = 800
    /\ FOut.score = 4

\* a text holds the integrity warning
HasWarning(text) == \E i \in DOMAIN text : text[i] = INTEGRITY_WARNING

\* what process_single_interview hands on of the outcome of assess_interview
Delivered == [reasoning |-> FOut.reason, full_assessment |-> FOut.full_assessment]

\* C22: when the flag is "suspicious", the reason assess_interview returns
\* with the score, or at least the reason text the batch output builds from
\* it, carries the integrity warning.
C22_SuspiciousReasonCarriesWarning ==
    Answered /\ Flag = "suspicious" =>
        HasWarning(FOut.reason) \/ HasWarning(ReasonText(Delivered))

\* What holds instead: the warning is appended to the notes of the
\* assessment, exactly when the flag is "suspicious"; the reason returned
\* never holds it, and the reason text of the batch output holds it only when
\* the judgment's reason is empty or the default text, the notes standing in.
IntegrityWarningGoesToNotes ==
    Answered =>
        /\ HasWarning(FOut.full_assessment.notes) <=> Flag = "suspicious"
        /\ ~HasWarning(FOut.reason)
        /\ HasWarning(ReasonText(Delivered)) <=>
              /\ Flag = "suspicious"
              /\ FOut.reason \in {<<"">>, <<"Assessment completed">>}

\* the questions before the one the loop is at that have been handed to
\* process_single_interview
CalledBefore ==
    Cardinality({i \in 1..idx : HasMedia(Interviews[i])})

\* C23: in every step of a batch run, a stage that starts is the one after
\* the stages that already ran for the question, RETRIEVE first, so that the
\* stages run in the order RETRIEVE, TRANSCRIBE, GAZE_AGGREGATE, FUSE and each
\* at most once (a stage is one step: it has finished when the next starts);
\* cleanup runs at most once, in the step in which the function returns, and
\* no stage starts after it; RETRIEVE starts only when the results of all
\* earlier questions have been collected, their pipelines having returned.
C23_StagesInOrderOneQuestionAtATime ==
    [][/\ stages' # stages =>
            \/ /\ Len(stages) < Len(Stages)
               /\ stages' = Append(stages, Stages[Len(stages) + 1])
               /\ ppc \in {"retrieve", "transcribe", "gaze", "fuse"}
               /\ cleanupCalls = 0 /\ cleanupCalls' = 0
            \/ /\ stages' = <<>>
               /\ ppc = "returned" /\ ppc' = "idle"
               /\ Len(results') = Len(results) + 1
       /\ cleanupCalls' # cleanupCalls =>
            \/ /\ cleanupCalls = 0 /\ cleanupCalls' = 1
               /\ ppc = "finally" /\ ppc' = "returned"
               /\ stages' = stages
            \/ /\ cleanupCalls' = 0
               /\ ppc = "returned" /\ ppc' = "idle"
       /\ (ppc # "retrieve" /\ ppc' = "retrieve") =>
            /\ ppc = "idle"
            /\ stages = <<>> /\ result = <<>> /\ cleanupCalls = 0
            /\ Len(results) = CalledBefore
            /\ Len(log) = CalledBefore
      ]_vars

\* the stages of the running question are an initial part of the four, and
\* the position of the function agrees with them
StagesArePrefix ==
    /\ \E n \in 0..Len(Stages) : stages = SubSeq(Stages, 1, n)
    /\ ppc = "transcribe" => stages = <<"RETRIEVE">>
    /\ ppc = "gaze" => stages = <<"RETRIEVE", "TRANSCRIBE">>
    /\ ppc = "fuse" => stages = <<"RETRIEVE", "TRANSCRIBE", "GAZE_AGGREGATE">>
    /\ cleanupCalls > 0 => ppc = "returned"

\* C23 witness: the second question of a request has run its four stages
\* and cleaned up, the first having been collected.
C23_Witness ==
    /\ bpc = "question"
    /\ Len(results) = 1
    /\ idx >= 1
    /\ ppc = "returned"
    /\ stages = Stages
    /\ cleanupCalls = 1

\* C24: process_single_interview always returns a result to the batch loop;
\* when an exception reached the outer except clause (a progress callback
\* raised: every other call of the body recovers on its own), the result has
\* score 0, the text of the exception and the trace, no stage ran after the
\* exception, and the result is collected like any other; a run without such
\* an exception has no trace.
C24_TopLevelGuardGivesZeroResult ==
    /\ Returned =>
          /\ result # <<>>
          /\ Res.id = Question.positionId
          /\ cbRaised =>
                /\ Res.score = 0
                /\ DOMAIN Res = {"id", "score", "error", "traceback"}
                /\ Res.error = "progress callback failed"
                /\ Res.traceback = "traceback"
                /\ Len(stages) < Len(Stages)
                /\ fres = <<>>
          /\ ~cbRaised => "traceback" \notin DOMAIN Res
    /\ ppc \in {"idle", "retrieve", "transcribe", "gaze", "fuse", "finally", "returned"}
    /\ cbRaised => ppc \in {"finally", "returned"} /\ result # <<>>

\* C24 witness: the progress callback raised before the gaze stage: the
\* result has score 0 and the trace, and the video was cleaned up.
C24_Witness ==
    /\ Returned
    /\ cbRaised
    /\ stages = <<"RETRIEVE", "TRANSCRIBE">>
    /\ result # <<>>
    /\ Res.score = 0
    /\ "traceback" \in DOMAIN Res
    /\ cleanupCalls = 1

\* the questions of the request that are not marked as having no video, and
\* those of them that also have a URL, in input order
Unmarked == SelectSeq(request, LAMBDA q : q.isVideoExist)
WithUrl == SelectSeq(request, LAMBDA q : q.isVideoExist /\ q.recordedVideoUrl # "")

\* the entries of a successful output are the questions qs, in order, and
\* the count, the total and the percentage are those of the entries
EntriesAre(qs) ==
    /\ Len(Out.scores) = Len(qs)
    /\ \A i \in 1..Len(qs) : Out.scores[i].id = qs[i].positionId
    /\ Out.count = Len(qs)
    /\ Out.total_score = Sum([i \in 1..Len(Out.scores) |-> Out.scores[i].score])
    /\ Out.interview_score_pct =
          (IF Len(qs) = 0 THEN 0 ELSE round(1000 * Out.total_score, 4 * Len(qs)))

\* C25 (as stated): the entries of a successful batch output are exactly the
\* questions not marked as having no media, in input order, one entry each,
\* and only they count toward the mean and the percentage.
C25_EntriesAreTheUnmarkedQuestions ==
    Done /\ Out.success => EntriesAre(Unmarked)

\* C25 (amended): the entries of a successful batch output are exactly the
\* questions that are not marked as having no media and have a non-empty
\* URL, in input order, one entry each, and only they count toward the mean
\* and the percentage; a question without a URL is skipped like a marked one.
C25_EntriesAreTheQuestionsWithMediaAndUrl ==
    Done /\ Out.success => EntriesAre(WithUrl)

\* C25 witness: three questions, the first marked as having no video, the
\* third without a URL: the output has the one entry of the second.
C25_Witness ==
    /\ Done
    /\ path = "api"
    /\ Len(request) = 3
    /\ ~request[1].isVideoExist /\ request[1].recordedVideoUrl = "url"
    /\ request[2].isVideoExist /\ request[2].recordedVideoUrl = "url"
    /\ request[3].isVideoExist /\ request[3].recordedVideoUrl = ""
    /\ Out.success
    /\ Len(Out.scores) = 1
    /\ Out.scores[1].id = 2
    /\ Out.count = 1

\* the frames a budget of m samples allows: those whose index (from 0) is a
\* multiple of the stride, the first m of them
Within(m) ==
    {i \in 1..Len(gIn.frames) :
        /\ (i - 1) % gIn.sample_rate = 0
        /\ (i - 1) \div gIn.sample_rate < m}

\* the samples collected are those of the frames P: their number, the number
\* of faces among them, and the gaze values of the faces in frame order
SamplesAreOf(P) ==
    LET faces == {i \in P : gIn.frames[i].face} IN
    /\ Samples.frames_analyzed = Cardinality(P)
    /\ Samples.frames_with_face = Cardinality(faces)
    /\ Len(Samples.gaze_values) = Cardinality(faces)
    /\ \A i \in faces :
          Samples.gaze_values[Cardinality({j \in faces : j <= i})]
              = analyze_frame(gIn.frames[i]).avg_gaze

\* C26: for every stride S >= 1 and budget M the frames processed are the
\* multiples of S, in order, up to M of them or to the end of the video: the
\* number of processed samples does not exceed M, and frames_with_face does
\* not exceed the number of processed samples.
C26_SamplingRespectsStrideAndBudget ==
    Analyzed /\ Runs =>
        /\ ~GOut.raised
        /\ SamplesAreOf(Within(gIn.max_frames))
        /\ Samples.frames_analyzed <= gIn.max_frames
        /\ Samples.frames_with_face <= Samples.frames_analyzed

\* What holds: with a budget of at least 1 the claim; with a budget of 0 the
\* first frame of the video is processed all the same, the budget being
\* compared after the frame has been counted.
SamplingChecksBudgetAfterTheFrame ==
    Analyzed /\ Runs =>
        /\ ~GOut.raised
        /\ SamplesAreOf(Within(IF gIn.max_frames >= 1 THEN gIn.max_frames ELSE 1))
        /\ gIn.max_frames >= 1 => Samples.frames_analyzed <= gIn.max_frames
        /\ Samples.frames_with_face <= Samples.frames_analyzed

\* the processed frames in which a face was found, and the gaze of a frame:
\* the iris position, limited to the eye (0..1, in tenths)
FaceFrames == {i \in Processed : gIn.frames[i].face}
GazeOf(i) ==
    IF gIn.frames[i].iris < 0 THEN 0
    ELSE IF gIn.frames[i].iris > 10 THEN 10
    ELSE gIn.frames[i].iris
Within03 == {i \in FaceFrames : GazeOf(i) - 5 < 3 /\ 5 - GazeOf(i) < 3}

\* C27: in a measured summary the processed frames with a face are split
\* into the eye-contact frames (gaze within 0.3 of 0.5) and the others, the
\* looking-away frames: eye_contact_percentage is the share of the first and
\* looking_away_percentage the share of the second, each rounded to two
\* decimals, so that the two shares sum to 100 before rounding; frames
\* without a face are in neither, and the shares are taken of the frames
\* with a face only.
C27_EyeContactAndLookingAwayPartition ==
    Analyzed /\ ~GOut.raised /\ Summary.analysis_notes = NoteMeasured =>
        LET n == Cardinality(FaceFrames)
            e == Cardinality(Within03)
            a == Cardinality(FaceFrames \ Within03)
        IN  /\ n > 0
            /\ e + a = n
            /\ Len(Samples.gaze_values) = n
            /\ Summary.eye_contact_percentage = round(10000 * e, n)
            /\ Summary.looking_away_percentage = round(10000 * a, n)
            /\ Abs(Summary.eye_contact_percentage + Summary.looking_away_percentage
                     - 10000) <= 1

\* C27 witness: a frame with gaze 0.8, on the threshold and so looking away,
\* a frame without a face and a frame with gaze 0.5: 50 and 50.
C27_Witness ==
    /\ Analyzed
    /\ ~GOut.raised
    /\ Len(gIn.frames) = 3
    /\ gIn.frames[1].face /\ gIn.frames[1].iris = 8
    /\ ~gIn.frames[2].face
    /\ gIn.frames[3].face /\ gIn.frames[3].iris = 5
    /\ Samples.frames_analyzed = 3
    /\ Summary.analysis_notes = NoteMeasured
    /\ Summary.eye_contact_percentage = 5000
    /\ Summary.looking_away_percentage = 5000

----------------------------------------------------------------------------
(* The lazily created handles *)

\* the objects a getter has constructed
BuiltBy(fn) == {i \in DOMAIN built : built[i].fn = fn}

\* the calls of a getter that returned a handle
GaveHandle(fn) == {i \in DOMAIN calls : calls[i].fn = fn /\ ~calls[i].raised /\ calls[i].handle # 0}

\* the last call of get_whisper_model before call j that returned a handle, or 0
PreviousModel(j) ==
    LET before == {i \in GaveHandle("get_whisper_model") : i < j}
    IN  IF before = {} THEN 0 ELSE CHOOSE i \in before : \A k \in before : k <= i

\* C28 as stated: each of the two handles is constructed at most once, and
\* every call that returns a handle returns that one.
C28_EachHandleConstructedAtMostOnce ==
    \A fn \in Getters :
        /\ Cardinality(BuiltBy(fn)) <= 1
        /\ \A i, j \in GaveHandle(fn) : calls[i].handle = calls[j].handle

\* C28, amended: the face-landmark detector is constructed at most once and
\* every later call returns it; a call of get_whisper_model constructs a model
\* exactly when none is held or the size asked for differs from the size of
\* the model held, and otherwise returns the model held.
C28_HandleReusedWhileSizeUnchanged ==
    /\ Cardinality(BuiltBy("get_face_detector")) <= 1
    /\ \A i, j \in GaveHandle("get_face_detector") : calls[i].handle = calls[j].handle
    /\ \A j \in GaveHandle("get_whisper_model") :
          LET p == PreviousModel(j)
          IN  IF p # 0 /\ calls[p].model_size = calls[j].model_size
                THEN ~calls[j].constructed /\ calls[j].handle = calls[p].handle
                ELSE /\ calls[j].constructed
                     /\ \A i \in GaveHandle("get_whisper_model") :
                           i < j => calls[i].handle # calls[j].handle
    /\ Cardinality(BuiltBy("get_whisper_model"))
          = Cardinality({j \in GaveHandle("get_whisper_model") : calls[j].constructed})
              + Cardinality({t \in threads : callers[t].fn = "get_whisper_model"
                                               /\ callers[t].new # 0})

\* three calls of get_whisper_model: a second size replaces the model, the
\* same size again returns the model held
C28_Witness ==
    /\ threads = {1}
    /\ Len(calls) = 3
    /\ \A i \in 1..3 : calls[i].fn = "get_whisper_model" /\ ~calls[i].raised
    /\ calls[1].model_size = "large-v3-turbo"
    /\ calls[2].model_size = "small"
    /\ calls[3].model_size = "small"
    /\ calls[2].handle # calls[1].handle
    /\ calls[3].handle = calls[2].handle

\* a second call of get_face_detector returns the detector of the first
FaceDetectorReused ==
    /\ threads = {1}
    /\ Cardinality(GaveHandle("get_face_detector")) = 2
    /\ Cardinality(BuiltBy("get_face_detector")) = 1

\* the sizes asked of get_whisper_model so far, by calls ended or under way
SizesAsked ==
    {calls[i].model_size : i \in {k \in DOMAIN calls : calls[k].fn = "get_whisper_model"}}
        \cup {callers[t].model_size : t \in {u \in threads : callers[u].fn = "get_whisper_model"}}

\* C29: with two threads calling, the face-landmark detector is constructed at
\* most once and every caller receives the same detector; so is the model
\* while every call of get_whisper_model asks for the same size.
C29_RacingInitializationConstructsOnce ==
    /\ Cardinality(BuiltBy("get_face_detector")) <= 1
    /\ \A i, j \in GaveHandle("get_face_detector") : calls[i].handle = calls[j].handle
    /\ Cardinality(SizesAsked) <= 1 =>
          /\ Cardinality(BuiltBy("get_whisper_model")) <= 1
          /\ \A i, j \in GaveHandle("get_whisper_model") : calls[i].handle = calls[j].handle

\* two threads are both past the test of get_face_detector with no detector
BothPastTheTest ==
    /\ threads = {1, 2}
    /\ \A t \in threads : callers[t].fn = "get_face_detector" /\ callers[t].pc = "construct"

----------------------------------------------------------------------------
(* The decision and the percentage of a batch *)

Decided == dOut[1]

\* C30: for a batch of 1 to 5 integer scores in 0..4 the decision is PASSED
\* exactly when the reported percentage is at least 75.0, FAILED exactly when
\* it is below 50.0, and the needs-review label ("Need Human" in the response,
\* REVIEW in the form) otherwise.  The percentage is in tenths of a percent.
C30_DecisionAgreesWithPercentage ==
    dOut # <<>> =>
        LET pct == Decided.interview_score_pct
        IN  /\ Decided.decision = "PASSED" <=> pct >= 750
            /\ Decided.decision = "FAILED" <=> pct < 500
            /\ Decided.decision = "Need Human" <=> (pct >= 500 /\ pct < 750)
            /\ Decided.display = "PASSED (display)" <=> pct >= 750
            /\ Decided.display = "FAILED (display)" <=> pct < 500
            /\ Decided.display = "REVIEW (display)" <=> (pct >= 500 /\ pct < 750)

\* five scores with a mean of exactly 3: 75.0 percent and PASSED
C30_Witness ==
    /\ Len(dIn) = 5
    /\ dOut # <<>>
    /\ Decided.interview_score_pct = 750
    /\ Decided.decision = "PASSED"
    /\ \E i \in DOMAIN dIn : dIn[i] = 4

\* three scores just under a mean of 2: 41.7 percent and FAILED
JustBelowReviewIsFailed ==
    /\ dIn = <<2, 2, 1>>
    /\ dOut # <<>>
    /\ Decided.interview_score_pct = 417
    /\ Decided.decision = "FAILED"

====
